---- MODULE Spec2Model ----
(***************************************************************************)
(* Recursion and reference-cycle analysis of JSON Schema documents:         *)
(*   checkForRecursionWithPath / resolveRefs  (src/src/utils/schemaExamples.ts) *)
(*   collectRefs / tryResolveRefs / findCircularRefs (src/src/utils/cycleRefs.ts) *)
(*   findLineNumberForPath / findAllLineNumbersForPath (src/unnamed/part_000) *)
(*   the validation, form and file list of App (src/src/App.tsx)           *)
(*                                                                         *)
(* A document is the tree JSON.parse returns.  It is modelled as a function *)
(* from positions (the sequence of keys leading from the root to a value)   *)
(* to nodes.  Two objects of a parsed tree are the same object iff they sit *)
(* at the same position, so a position is the reference identity of an      *)
(* object or array; primitives are compared by value, as a JS Set does.     *)
(* A string is a sequence of tokens: "#", "/" and the names between them    *)
(* are one token each, so that replace('#','') and split('/') are computed; *)
(* a string that is enumerated (Object.entries) has one token per character.*)
(* Only own keys are modelled (no `length`, no prototype members), and the  *)
(* keys of the objects are not integer-like, so that Object.entries yields  *)
(* them in insertion order.                                                 *)
(***************************************************************************)
EXTENDS Integers, Sequences, FiniteSets, TLC

VARIABLES schema, detect, detect2, visited, circ, circ1,
          jsonString, pathText, lineNumber, allLineNumbers,
          inputAt, resolved,
          schemaInput, validationResult, hasRecursion, generatedForm,
          isSchemaLoading, selectedSchema, uploadedSchemas, selectedFiles,
          validationTimeout, loadTimers, reading, uploads, lastCall

vars == <<schema, detect, detect2, visited, circ, circ1,
          jsonString, pathText, lineNumber, allLineNumbers,
          inputAt, resolved,
          schemaInput, validationResult, hasRecursion, generatedForm,
          isSchemaLoading, selectedSchema, uploadedSchemas, selectedFiles,
          validationTimeout, loadTimers, reading, uploads, lastCall>>

\* The state of the App component (src/src/App.tsx): its useState values,
\* the timers it has set, the file drop being read, the number of files
\* accepted so far, and the call of removeUploadedSchema or
\* deleteSelectedFiles that made the last step, if one did.
appVars == <<schemaInput, validationResult, hasRecursion, generatedForm,
             isSchemaLoading, selectedSchema, uploadedSchemas, selectedFiles,
             validationTimeout, loadTimers, reading, uploads, lastCall>>

\* The state of a call of resolveRefs alone: the position of its input in the
\* document and its result.
resolverVars == <<inputAt, resolved>>

\* The state of the line locator: its two inputs and the results of its two
\* functions.
locatorVars == <<jsonString, pathText, lineNumber, allLineNumbers>>

\* The state of the two detectors.
detectorVars == <<schema, detect, detect2, visited, circ, circ1>>

RECURSIVE Flatten(_, _)
RECURSIVE SplitFrom(_, _, _)
RECURSIVE Walk(_, _, _, _)
RECURSIVE checkForRecursionWithPath(_, _, _, _)
RECURSIVE CheckKeys(_, _, _, _, _)
RECURSIVE CheckEntries(_, _, _, _, _, _)
RECURSIVE dfs(_, _, _, _)
RECURSIVE DfsKeys(_, _, _, _, _)
RECURSIVE DfsEntries(_, _, _, _, _, _)
RECURSIVE tryResolveRefs(_, _, _)
RECURSIVE TryEach(_, _, _, _, _)
RECURSIVE CollectDefinitions(_, _, _, _)
RECURSIVE ResolveAll(_, _, _, _)
RECURSIVE tryResolveRefs1(_, _, _)
RECURSIVE TryEach1(_, _, _, _)
RECURSIVE ResolveAll1(_, _, _)
RECURSIVE SplitArrowFrom(_, _, _)
RECURSIVE Closure(_, _)
RECURSIVE ScanClosure(_, _)
RECURSIVE TryEachShared(_, _, _, _, _)
RECURSIVE StrSplitFrom(_, _, _, _)
RECURSIVE RegExpFrom(_, _, _)
RECURSIVE MatchAt(_, _, _, _)
RECURSIVE Ascending(_)
RECURSIVE CollectLines(_, _, _, _)
RECURSIVE JoinLines(_, _)
RECURSIVE KeyLinesOfSteps(_, _)
RECURSIVE PointerClosure(_, _)
RECURSIVE RefKeyLinesPerStep(_)
RECURSIVE NewSchemas(_, _, _, _)
RECURSIVE SortedIndices(_)
RECURSIVE DeleteEach(_, _, _, _, _)

----------------------------------------------------------------------------
(* JSON values and the documents built from them *)

Range(s) == {s[i] : i \in DOMAIN s}

Node(kind, val, keys) == [kind |-> kind, val |-> val, keys |-> keys]

\* A string value; toks are its tokens.
Str(toks) == [p \in {<<>>} |-> Node("string", toks, <<>>)]

Bool(b) == [p \in {<<>>} |-> Node("boolean", IF b THEN <<"true">> ELSE <<"false">>, <<>>)]

Null == [p \in {<<>>} |-> Node("null", <<>>, <<>>)]

\* A container whose members are ents[i] = <<key, value>>, in insertion order.
Container(kind, ents) ==
    LET dom == {<<>>} \cup UNION {{<<ents[i][1]>> \o q : q \in DOMAIN ents[i][2]} : i \in DOMAIN ents}
    IN [p \in dom |->
          IF p = <<>>
          THEN Node(kind, <<>>, [i \in DOMAIN ents |-> ents[i][1]])
          ELSE LET i == CHOOSE j \in DOMAIN ents : ents[j][1] = Head(p)
               IN ents[i][2][Tail(p)]]

Obj(ents) == Container("object", ents)

\* An array: element i (0-based) is the member with key "i".
Arr(items) == Container("array", [i \in DOMAIN items |-> <<ToString(i - 1), items[i]>>])

----------------------------------------------------------------------------
(* Values as the code holds them: a handle on a value of the document, a   *)
(* character of a string, or undefined.                                     *)

Undefined == [def |-> FALSE, at |-> <<>>, kind |-> "undefined", val |-> <<>>]

At(doc, pos) == [def |-> TRUE, at |-> pos, kind |-> doc[pos].kind, val |-> doc[pos].val]

Char(c) == [def |-> TRUE, at |-> <<>>, kind |-> "string", val |-> <<c>>]

IsContainer(h) == h.kind \in {"object", "array"}

\* undefined or null: reading a property of it throws a TypeError.
Nullish(h) == h.kind \in {"undefined", "null"}

\* JavaScript truthiness.
Truthy(h) ==
    CASE h.kind \in {"object", "array"} -> TRUE
      [] h.kind = "string" -> h.val # <<>>
      [] h.kind = "boolean" -> h.val = <<"true">>
      [] h.kind = "number" -> h.val # <<"0">>
      [] OTHER -> FALSE

\* Own enumerable keys in Object.entries order.
KeysOf(doc, h) ==
    CASE IsContainer(h) -> doc[h.at].keys
      [] h.kind = "string" -> [i \in 1..Len(h.val) |-> ToString(i - 1)]
      [] OTHER -> <<>>

\* h[key] for a non-nullish h.
Get(doc, h, key) ==
    CASE IsContainer(h) ->
            IF key \in Range(doc[h.at].keys) THEN At(doc, h.at \o <<key>>) ELSE Undefined
      [] h.kind = "string" ->
            IF \E i \in 1..Len(h.val) : ToString(i - 1) = key
            THEN Char(h.val[CHOOSE i \in 1..Len(h.val) : ToString(i - 1) = key])
            ELSE Undefined
      [] OTHER -> Undefined

\* Mutant: the identity of a copy of the value, not of the value itself.
IdentityOfCopy(h) == [k |-> h.kind, at |-> <<"copy">> \o h.at, v |-> h.val]

\* What a Set or Map compares: objects by reference, primitives by value.
Identity(h) ==
    IF IsContainer(h)
    THEN [k |-> "object", at |-> h.at, v |-> <<>>]
    ELSE [k |-> h.kind, at |-> <<>>, v |-> h.val]

StrId(toks) == [k |-> "string", at |-> <<>>, v |-> toks]

----------------------------------------------------------------------------
(* resolveRefs *)

\* Mutant: the "#" is kept.
ReplaceHashKept(s) == s

\* s.replace('#', ''): the first "#" removed.
ReplaceHash(s) ==
    IF \E i \in 1..Len(s) : s[i] = "#"
    THEN LET i == CHOOSE j \in 1..Len(s) : s[j] = "#" /\ \A m \in 1..(j - 1) : s[m] # "#"
         IN SubSeq(s, 1, i - 1) \o SubSeq(s, i + 1, Len(s))
    ELSE s

\* s.split('/') from token i on, cur being the part read so far.
SplitFrom(s, i, cur) ==
    IF i > Len(s) THEN <<cur>>
    ELSE IF s[i] = "/" THEN <<cur>> \o SplitFrom(s, i + 1, <<>>)
    ELSE SplitFrom(s, i + 1, Append(cur, s[i]))

Split(s) == SplitFrom(s, 1, <<>>)

\* The loop over refPath: currentSchema = currentSchema[pathPart] for the
\* parts that are not ''.  A part of several tokens names no key.
Walk(doc, cur, parts, i) ==
    IF i > Len(parts) THEN [thrown |-> FALSE, value |-> cur]
    ELSE IF parts[i] = <<>> THEN Walk(doc, cur, parts, i + 1)
    ELSE IF Nullish(cur) THEN [thrown |-> TRUE, value |-> Undefined]
    ELSE Walk(doc,
              IF Len(parts[i]) = 1 THEN Get(doc, cur, parts[i][1]) ELSE Undefined,
              parts, i + 1)

resolveRefs(doc, inputSchema) ==
    IF Nullish(inputSchema) THEN [thrown |-> TRUE, value |-> Undefined]
    ELSE
    LET ref == Get(doc, inputSchema, "$ref")
    IN IF Truthy(ref)
       THEN IF ref.kind # "string"
            THEN [thrown |-> TRUE, value |-> Undefined]   \* $ref.replace is not a function
            ELSE Walk(doc, At(doc, <<>>), Split(ReplaceHash(ref.val)), 1)
       ELSE [thrown |-> FALSE, value |-> inputSchema]

----------------------------------------------------------------------------
(* checkForRecursionWithPath *)

\* Mutant: 'properties' explored before the composition keys.
keysToCheckPropertiesFirst == <<"properties", "allOf", "anyOf", "oneOf", "not">>

\* Mutant: the key list without 'properties'.
keysToCheckShort == <<"allOf", "anyOf", "oneOf", "not">>

keysToCheck == <<"allOf", "anyOf", "oneOf", "not", "properties">>

\* path.join(' -> ')
Flatten(path, i) ==
    IF i > Len(path) THEN <<>>
    ELSE IF i = Len(path) THEN path[i]
    ELSE path[i] \o <<" -> ">> \o Flatten(path, i + 1)

Join(path) == Flatten(path, 1)

\* Mutant: the error is swallowed and reported as no recursion.
ThrewSwallowed(vis) ==
    [status |-> "returned", hasRecursion |-> FALSE, pathIsNull |-> TRUE,
     recursionPath |-> <<>>, visited |-> vis]

\* A TypeError thrown by a property read; it propagates to the caller.
Threw(vis) ==
    [status |-> "threw", hasRecursion |-> FALSE, pathIsNull |-> TRUE,
     recursionPath |-> <<>>, visited |-> vis]

\* Mutant: a revisit is not reported.
FoundNever(path, vis) ==
    [status |-> "returned", hasRecursion |-> FALSE, pathIsNull |-> TRUE,
     recursionPath |-> <<>>, visited |-> vis]

Found(path, vis) ==
    [status |-> "returned", hasRecursion |-> TRUE, pathIsNull |-> FALSE,
     recursionPath |-> Join(path), visited |-> vis]

NotFound(vis) ==
    [status |-> "returned", hasRecursion |-> FALSE, pathIsNull |-> TRUE,
     recursionPath |-> <<>>, visited |-> vis]

Stops(r) == r.status = "threw" \/ r.hasRecursion

\* Mutant: the skip test without its tests of `type`.
IsObjectTypedLoose(doc, h) == Truthy(h) /\ IsContainer(h)

\* Mutant: the skip test taken with its sense inverted.
IsObjectTypedInverted(doc, h) ==
    ~(/\ Truthy(h)
      /\ IsContainer(h)
      /\ LET t == Get(doc, h, "type") IN t.kind = "string" /\ t.val = <<"object">>)

\* The negation of the skip test: a truthy object whose type is 'object'.
IsObjectTyped(doc, h) ==
    /\ Truthy(h)
    /\ IsContainer(h)
    /\ LET t == Get(doc, h, "type") IN t.kind = "string" /\ t.val = <<"object">>

\* `$ref:${schema['$ref']}`
RefStep(ref) == <<"$ref:">> \o ref.val

\* `${key}[${i}]` for an element of an array, `${key}.${propName}` otherwise.
PropertyStep(sub, key, name) ==
    IF sub.kind = "array" THEN <<key, "[", name, "]">> ELSE <<key, ".", name>>

checkForRecursionWithPath(doc, sch, vis, path) ==
    IF Nullish(sch) THEN Threw(vis)
    ELSE
    LET ref == Get(doc, sch, "$ref")
        res == IF Truthy(ref) THEN resolveRefs(doc, sch) ELSE [thrown |-> FALSE, value |-> sch]
    IN IF res.thrown THEN Threw(vis)
       ELSE
       LET initialSchema == res.value
       IN IF Identity(initialSchema) \in vis THEN Found(path, vis)
          ELSE
          LET vis1 == vis \cup {Identity(initialSchema)}
              viaRef == IF Truthy(ref)
                        THEN checkForRecursionWithPath(doc, initialSchema, vis1,
                                                       Append(path, RefStep(ref)))
                        ELSE NotFound(vis1)
          IN IF Stops(viaRef) THEN viaRef
             ELSE IF ~IsObjectTyped(doc, initialSchema) THEN NotFound(viaRef.visited)
             ELSE CheckKeys(doc, initialSchema, viaRef.visited, path, 1)

\* for (const key of keysToCheck), from the k-th key on.
CheckKeys(doc, sch, vis, path, k) ==
    IF k > Len(keysToCheck) THEN NotFound(vis)
    ELSE
    LET sub == Get(doc, sch, keysToCheck[k])
    IN IF ~Truthy(sub) THEN CheckKeys(doc, sch, vis, path, k + 1)
       ELSE LET r == CheckEntries(doc, sub, vis, path, keysToCheck[k], 1)
            IN IF Stops(r) THEN r ELSE CheckKeys(doc, sch, r.visited, path, k + 1)

\* The loop over the elements of an array or over Object.entries, from the
\* i-th member on.
CheckEntries(doc, sub, vis, path, key, i) ==
    IF i > Len(KeysOf(doc, sub)) THEN NotFound(vis)
    ELSE
    LET name == KeysOf(doc, sub)[i]
        r == checkForRecursionWithPath(doc, Get(doc, sub, name), vis,
                                       Append(path, PropertyStep(sub, key, name)))
    IN IF Stops(r) THEN r ELSE CheckEntries(doc, sub, r.visited, path, key, i + 1)

----------------------------------------------------------------------------
(* collectRefs: the index of the $ref values of one schema, a Map in        *)
(* insertion order, modelled as the sequence of its entries.                *)

KEYS_TO_CHECK == <<"allOf", "anyOf", "oneOf", "not", "properties">>

DEFINITION_KEY_WORD == "$defs"

MAX_REF_RESOLUTION_DEPTH == 10

\* What a walk ends with: the error thrown, if any, with the pointers named
\* in its message, and the pointers the walk visited, in call order (the
\* console.log of line 160).
NoError(log) == [error |-> "none", trail |-> <<>>, log |-> log]

Error(kind, trail, log) == [error |-> kind, trail |-> trail, log |-> log]

\* refs.has(ref)
RefsHas(refs, id) == \E i \in DOMAIN refs : refs[i].ref = id

\* Mutant: the root pointer is taken to be '#/'.
IsRootRefSlash(ref) == ref.kind = "string" /\ ref.val = <<"#", "/">>

\* ref === '#'
IsRootRef(ref) == ref.kind = "string" /\ ref.val = <<"#">>

dfs(doc, sch, path, refs) ==
    IF Nullish(sch) THEN [error |-> "TypeError", refs |-> refs]
    ELSE
    LET ref == Get(doc, sch, "$ref")
    IN IF Truthy(ref) /\ IsRootRef(ref) THEN [error |-> "RootSelfReference", refs |-> refs]
       ELSE IF Truthy(ref) /\ RefsHas(refs, Identity(ref)) THEN [error |-> "none", refs |-> refs]
       ELSE
       LET refs1 == IF Truthy(ref)
                    THEN Append(refs, [ref |-> Identity(ref), path |-> path])
                    ELSE refs
       IN IF ~IsObjectTyped(doc, sch) THEN [error |-> "none", refs |-> refs1]
          ELSE DfsKeys(doc, sch, path, refs1, 1)

\* for (const key of KEYS_TO_CHECK), from the k-th key on.
DfsKeys(doc, sch, path, refs, k) ==
    IF k > Len(KEYS_TO_CHECK) THEN [error |-> "none", refs |-> refs]
    ELSE
    LET sub == Get(doc, sch, KEYS_TO_CHECK[k])
    IN IF ~Truthy(sub) THEN DfsKeys(doc, sch, path, refs, k + 1)
       ELSE LET r == DfsEntries(doc, sub, path, refs, KEYS_TO_CHECK[k], 1)
            IN IF r.error # "none" THEN r ELSE DfsKeys(doc, sch, path, r.refs, k + 1)

\* The loop over the elements of an array or over Object.entries.
DfsEntries(doc, sub, path, refs, key, i) ==
    IF i > Len(KeysOf(doc, sub)) THEN [error |-> "none", refs |-> refs]
    ELSE
    LET name == KeysOf(doc, sub)[i]
        r == dfs(doc, Get(doc, sub, name), path \o <<key, name>>, refs)
    IN IF r.error # "none" THEN r ELSE DfsEntries(doc, sub, path, r.refs, key, i + 1)

collectRefs(doc, targetSchema) == dfs(doc, targetSchema, <<>>, <<>>)

----------------------------------------------------------------------------
(* tryResolveRefs and findCircularRefs, lines 159-197 *)

\* `#/${DEFINITION_KEY_WORD}/${path}`
DefinitionKey(name) == StrId(<<"#", "/", DEFINITION_KEY_WORD, "/", name>>)

\* definitionsRefs.has(ref) and definitionsRefs.get(ref)
DefsHas(defs, id) == \E i \in DOMAIN defs : defs[i].key = id

DefsGet(defs, id) == defs[CHOOSE i \in DOMAIN defs : defs[i].key = id].refs

\* Mutant: only the pointer visited last is compared.
PathIncludesLast(path, id) == path # <<>> /\ path[Len(path)] = id

\* path.includes(ref)
PathIncludes(path, id) == \E i \in DOMAIN path : path[i] = id

\* Mutant: the bound is tested one pointer late.
DepthExceededLate(path) == Len(path) > MAX_REF_RESOLUTION_DEPTH + 1

\* path.length > MAX_REF_RESOLUTION_DEPTH
DepthExceeded(path) == Len(path) > MAX_REF_RESOLUTION_DEPTH

\* Mutant: the depth is tested before the path is searched for the pointer.
tryResolveRefsDepthFirst(id, defs, path) ==
    IF DepthExceeded(path) THEN Error("MaxDepthExceeded", Append(path, id), <<id>>)
    ELSE IF PathIncludes(path, id) THEN Error("CircularReference", Append(path, id), <<id>>)
    ELSE IF DefsHas(defs, id) THEN TryEach(DefsGet(defs, id), 1, defs, Append(path, id), <<id>>)
    ELSE NoError(<<id>>)

tryResolveRefs(id, defs, path) ==
    IF PathIncludes(path, id) THEN Error("CircularReference", Append(path, id), <<id>>)
    ELSE IF DepthExceeded(path) THEN Error("MaxDepthExceeded", Append(path, id), <<id>>)
    ELSE IF DefsHas(defs, id) THEN TryEach(DefsGet(defs, id), 1, defs, Append(path, id), <<id>>)
    ELSE NoError(<<id>>)

\* Mutant: the references of a definition are not walked.
TryEachNone(refs, i, defs, path, log) == NoError(log)

\* Mutant: the walk of one entry leaves its pointers on the path its
\* siblings are walked with (one shared collection, never cleared).
TryEachShared(refs, i, defs, path, log) ==
    IF i > Len(refs) THEN NoError(log)
    ELSE LET r == tryResolveRefs(refs[i].ref, defs, path)
         IN IF r.error # "none" THEN Error(r.error, r.trail, log \o r.log)
            ELSE TryEachShared(refs, i + 1, defs, path \o r.log, log \o r.log)

\* for (const [$ref, _] of definitionsRefs.get(ref)), from the i-th entry on.
TryEach(refs, i, defs, path, log) ==
    IF i > Len(refs) THEN NoError(log)
    ELSE LET r == tryResolveRefs(refs[i].ref, defs, path)
         IN IF r.error # "none" THEN Error(r.error, r.trail, log \o r.log)
            ELSE TryEach(refs, i + 1, defs, path, log \o r.log)

\* Object.entries(schema[DEFINITION_KEY_WORD]).forEach(...), from the i-th on.
CollectDefinitions(doc, block, i, defs) ==
    IF i > Len(KeysOf(doc, block)) THEN [error |-> "none", defs |-> defs]
    ELSE
    LET name == KeysOf(doc, block)[i]
        r == collectRefs(doc, Get(doc, block, name))
    IN IF r.error # "none" THEN [error |-> r.error, defs |-> defs]
       ELSE CollectDefinitions(doc, block, i + 1,
                               Append(defs, [key |-> DefinitionKey(name), refs |-> r.refs]))

\* for (const [ref, path] of schemaRefs) tryResolveRefs(ref, definitionsRefs, [])
ResolveAll(schemaRefs, i, defs, log) ==
    IF i > Len(schemaRefs) THEN NoError(log)
    ELSE LET r == tryResolveRefs(schemaRefs[i].ref, defs, <<>>)
         IN IF r.error # "none" THEN Error(r.error, r.trail, log \o r.log)
            ELSE ResolveAll(schemaRefs, i + 1, defs, log \o r.log)

findCircularRefs(doc) ==
    LET root == At(doc, <<>>)
        schemaRefs == collectRefs(doc, root)
    IN IF schemaRefs.error # "none" THEN Error(schemaRefs.error, <<>>, <<>>)
       ELSE IF ~Truthy(Get(doc, root, DEFINITION_KEY_WORD)) THEN NoError(<<>>)
       ELSE LET d == CollectDefinitions(doc, Get(doc, root, DEFINITION_KEY_WORD), 1, <<>>)
            IN IF d.error # "none" THEN Error(d.error, <<>>, <<>>)
               ELSE ResolveAll(schemaRefs.refs, 1, d.defs, <<>>)

----------------------------------------------------------------------------
(* tryResolveRefs and findCircularRefs, lines 66-103: the walk shares one   *)
(* Set of pointers, and the definitions block is tested before any scan.    *)

\* createFullPath([...path, ref], definitionsRefs) reads refs.get(p) for every
\* p and spreads it: a p that names no definition makes that a TypeError.
FullPathThrows(trail, defs) == \E i \in DOMAIN trail : ~DefsHas(defs, trail[i])

tryResolveRefs1(id, defs, path) ==
    IF PathIncludes(path, id)
    THEN [error |-> IF FullPathThrows(Append(path, id), defs) THEN "TypeError"
                    ELSE "CircularReference",
          trail |-> Append(path, id), path |-> path]
    ELSE IF DepthExceeded(path)
    THEN [error |-> IF FullPathThrows(Append(path, id), defs) THEN "TypeError"
                    ELSE "MaxDepthExceeded",
          trail |-> Append(path, id), path |-> path]
    ELSE IF DefsHas(defs, id) THEN TryEach1(DefsGet(defs, id), 1, defs, Append(path, id))
    ELSE [error |-> "none", trail |-> <<>>, path |-> path]

TryEach1(refs, i, defs, path) ==
    IF i > Len(refs) THEN [error |-> "none", trail |-> <<>>, path |-> path]
    ELSE LET r == tryResolveRefs1(refs[i].ref, defs, path)
         IN IF r.error # "none" THEN r ELSE TryEach1(refs, i + 1, defs, r.path)

\* for (const [ref, path] of schemaRefs) tryResolveRefs(ref, definitionsRefs)
ResolveAll1(schemaRefs, i, defs) ==
    IF i > Len(schemaRefs) THEN NoError(<<>>)
    ELSE LET r == tryResolveRefs1(schemaRefs[i].ref, defs, <<>>)
         IN IF r.error # "none" THEN Error(r.error, r.trail, <<>>)
            ELSE ResolveAll1(schemaRefs, i + 1, defs)

findCircularRefs1(doc) ==
    LET root == At(doc, <<>>)
    IN IF ~Truthy(Get(doc, root, DEFINITION_KEY_WORD)) THEN NoError(<<>>)
       ELSE
       LET schemaRefs == collectRefs(doc, root)
       IN IF schemaRefs.error # "none" THEN Error(schemaRefs.error, <<>>, <<>>)
          ELSE LET d == CollectDefinitions(doc, Get(doc, root, DEFINITION_KEY_WORD), 1, <<>>)
               IN IF d.error # "none" THEN Error(d.error, <<>>, <<>>)
                  ELSE ResolveAll1(schemaRefs.refs, 1, d.defs)

----------------------------------------------------------------------------
(* Documents *)

\* The bounds of the families of documents below.
MaxRefs == 2

MaxChain == 13

SeqsUpTo(S, n) == UNION {[1..k -> S] : k \in 0..n}

Ref(ptr) == Obj(<<<<"$ref", Str(ptr)>>>>)

Pointer(name) == <<"#", "/", "$defs", "/", name>>

TypeIs(t) == <<"type", Str(<<t>>)>>

PropName == <<"p1", "p2", "p3", "p4">>

\* {"p1": {"$ref": refs[1]}, "p2": {"$ref": refs[2]}, ...}
RefProps(refs) == Obj([i \in DOMAIN refs |-> <<PropName[i], Ref(refs[i])>>])

\* {"type": "object", "properties": {"p1": {"$ref": ...}, ...}}
ObjectWith(refs) == Obj(<<TypeIs("object"), <<"properties", RefProps(refs)>>>>)

\* {"type":"object","properties":{"next":{"$ref":"#"}}}
SelfRefDoc ==
    Obj(<<TypeIs("object"), <<"properties", Obj(<<<<"next", Ref(<<"#">>)>>>>)>>>>)

\* mutualRecursionSchema (schemaExamples.ts)
MutualRecursionDoc ==
    Obj(<<TypeIs("object"),
          <<"properties", Obj(<<<<"b", Ref(Pointer("B"))>>>>)>>,
          <<"$defs", Obj(<<
              <<"B", Obj(<<TypeIs("object"), <<"properties", Obj(<<<<"a", Ref(Pointer("A"))>>>>)>>>>)>>,
              <<"A", Obj(<<TypeIs("object"), <<"properties", Obj(<<<<"b", Ref(Pointer("B"))>>>>)>>>>)>>
          >>)>>
        >>)

\* DeepIndirectABC (schemaExamples.ts): the root and the definitions carry
\* their $ref directly.
DeepIndirectDoc ==
    Obj(<<<<"$defs", Obj(<<<<"A", Ref(Pointer("B"))>>, <<"B", Ref(Pointer("C"))>>,
                           <<"C", Ref(Pointer("A"))>>>>)>>,
          <<"$ref", Str(Pointer("A"))>>>>)

\* Documents over the definitions A and B.  The root holds up to MaxRefs
\* references; a definition holds none, one under properties, is itself a
\* reference, or is an array of references to the root.  A reference names A, B, the root, a definition that does not
\* exist, or a path whose first segment does not exist.
Targets ==
    {Pointer("A"), Pointer("B"), <<"#">>, Pointer("Missing"), <<"#", "/", "nowhere", "/", "X">>}

\* {"type": "array", "items": {"$ref": ptr}}
ArrayOf(ptr) == Obj(<<TypeIs("array"), <<"items", Ref(ptr)>>>>)

Bodies ==
    {ObjectWith(<<>>), ArrayOf(<<"#">>)}
    \cup {ObjectWith(<<t>>) : t \in Targets}
    \cup {Ref(t) : t \in {Pointer("A"), Pointer("B"), <<"#">>}}

GraphDoc(rootRefs, a, b) ==
    Obj(<<TypeIs("object"), <<"properties", RefProps(rootRefs)>>,
          <<"$defs", Obj(<<<<"A", a>>, <<"B", b>>>>)>>>>)

GraphDocs == {GraphDoc(r, a, b) : r \in SeqsUpTo(Targets, MaxRefs), a \in Bodies, b \in Bodies}

\* The same roots without a definitions block.
NoDefsDocs == {ObjectWith(r) : r \in SeqsUpTo(Targets \ {Pointer("A"), Pointer("B")}, MaxRefs)}

\* Documents over A, B and C in which A may hold two references: the root
\* references A, A references B and C in either order, B and C one definition.
Perms(S) == {f \in [1..Cardinality(S) -> S] : \A x \in S : \E i \in DOMAIN f : f[i] = x}

BranchDoc(a, b, c) ==
    Obj(<<TypeIs("object"), <<"properties", RefProps(<<Pointer("A")>>)>>,
          <<"$defs", Obj(<<<<"A", ObjectWith(a)>>, <<"B", ObjectWith(b)>>,
                           <<"C", ObjectWith(c)>>>>)>>>>)

Names3 == {Pointer("A"), Pointer("B"), Pointer("C")}

BranchDocs ==
    {BranchDoc(a, b, c) : a \in UNION {Perms(S) : S \in SUBSET {Pointer("B"), Pointer("C")}},
                          b \in SeqsUpTo(Names3, 1), c \in SeqsUpTo(Names3, 1)}

\* Chains: the root references D1, Di references Di+1, and the last of the n
\* definitions holds no reference ("end"), references a pointer that names
\* no definition ("open"), or references D1 ("loop") or itself ("self").
ChainName(i) == "D" \o ToString(i)

ChainTail(n, tail) ==
    CASE tail = "end" -> <<>>
      [] tail = "open" -> <<Pointer(ChainName(n + 1))>>
      [] tail = "loop" -> <<Pointer(ChainName(1))>>
      [] tail = "self" -> <<Pointer(ChainName(n))>>

ChainDoc(n, tail) ==
    Obj(<<TypeIs("object"), <<"properties", RefProps(<<Pointer(ChainName(1))>>)>>,
          <<"$defs", Obj([i \in 1..n |->
                <<ChainName(i),
                  ObjectWith(IF i < n THEN <<Pointer(ChainName(i + 1))>> ELSE ChainTail(n, tail))>>])>>>>)

ChainDocs == {ChainDoc(n, tail) : n \in 1..MaxChain, tail \in {"end", "open", "loop", "self"}}

\* Documents without any $ref: an object-typed root with a `not` and a
\* `properties` member drawn from the values below.
StringSchema == Obj(<<TypeIs("string")>>)

Values ==
    {Bool(TRUE), Bool(FALSE), Null, Str(<<"a", "b">>), Str(<<"a", "a">>),
     StringSchema,
     Arr(<<StringSchema, StringSchema>>),
     Obj(<<<<"a", StringSchema>>, <<"b", StringSchema>>>>),
     Obj(<<<<"a", Bool(TRUE)>>, <<"b", Bool(TRUE)>>>>),
     Obj(<<<<"a", Bool(TRUE)>>, <<"b", Bool(FALSE)>>>>),
     Obj(<<<<"a", Null>>>>),
     Obj(<<<<"a", Obj(<<TypeIs("object"), <<"not", StringSchema>>>>)>>>>)}

PlainDocs ==
    {Obj(<<TypeIs("object"), <<"properties", p>>, <<"not", n>>>>) : p \in Values, n \in Values}
    \cup {Obj(<<TypeIs("object"), <<k, v>>>>) : k \in Range(keysToCheck), v \in Values}
    \cup {Obj(<<<<"allOf", v>>>>) : v \in Values}

\* recursiveSchema (schemaExamples.ts), without its titles.
RecursiveSchemaDoc ==
    Obj(<<TypeIs("object"),
          <<"properties", Obj(<<<<"name", StringSchema>>,
                                <<"subcategories", ArrayOf(<<"#">>)>>>>)>>>>)

\* Documents whose root holds up to MaxKeys of the five keys, in any order,
\* with or without "type": "object".  The value of allOf, anyOf and oneOf is
\* an array of two schemas, the value of not and properties a mapping with
\* the names b and a, in this order; a schema is a reference to the root
\* ("D") or a string schema ("S").
MaxKeys == 2

Element(c) == IF c = "D" THEN Ref(<<"#">>) ELSE StringSchema

Member(key, c) ==
    IF key \in {"not", "properties"}
    THEN Obj(<<<<"b", Element(c[1])>>, <<"a", Element(c[2])>>>>)
    ELSE Arr(<<Element(c[1]), Element(c[2])>>)

OrderDoc(typed, keys, contents) ==
    Obj((IF typed THEN <<TypeIs("object")>> ELSE <<>>)
        \o [i \in DOMAIN keys |-> <<keys[i], Member(keys[i], contents[i])>>])

Contents == [1..2 -> {"D", "S"}]

KeyOrders ==
    {ks \in SeqsUpTo(Range(keysToCheck), MaxKeys) :
        ks # <<>> /\ \A i, j \in DOMAIN ks : i # j => ks[i] # ks[j]}

OrderDocs ==
    UNION {{OrderDoc(TRUE, ks, cs) : cs \in [DOMAIN ks -> Contents]} : ks \in KeyOrders}

UntypedDocs ==
    UNION {{OrderDoc(FALSE, ks, cs) : cs \in [DOMAIN ks -> Contents]} : ks \in KeyOrders}

\* {"type":"object","not":{"$ref":"#"}}
NotRootDoc == Obj(<<TypeIs("object"), <<"not", Ref(<<"#">>)>>>>)

\* An object-typed root whose `not` is a reference to the definition A, A
\* being an object-typed schema whose `not` is a reference to A.
NotDefinitionDoc ==
    Obj(<<TypeIs("object"), <<"not", Ref(Pointer("A"))>>,
          <<"$defs", Obj(<<<<"A", Obj(<<TypeIs("object"), <<"not", Ref(Pointer("A"))>>>>)>>>>)>>>>)

Documents ==
    {SelfRefDoc, MutualRecursionDoc, DeepIndirectDoc, RecursiveSchemaDoc,
     NotRootDoc, NotDefinitionDoc}
    \cup GraphDocs \cup NoDefsDocs \cup BranchDocs \cup ChainDocs \cup PlainDocs
    \cup OrderDocs \cup UntypedDocs

----------------------------------------------------------------------------
(* The line locator: findLineNumberForPath and findAllLineNumbersForPath    *)
(* (src/unnamed/part_000).  Here a string is the sequence of its            *)
(* characters, so that split, startsWith, includes, substring and the       *)
(* regular expressions built from a key are computed character by           *)
(* character.                                                               *)

\* s holds t at index i (1-based).
StrAt(s, i, t) == i + Len(t) - 1 <= Len(s) /\ SubSeq(s, i, i + Len(t) - 1) = t

\* s.split(sep) from index i on, cur being the piece read so far.
StrSplitFrom(s, sep, i, cur) ==
    IF i > Len(s) THEN <<cur>>
    ELSE IF StrAt(s, i, sep) THEN <<cur>> \o StrSplitFrom(s, sep, i + Len(sep), <<>>)
    ELSE StrSplitFrom(s, sep, i + 1, Append(cur, s[i]))

StrSplit(s, sep) == StrSplitFrom(s, sep, 1, <<>>)

StrStartsWith(s, t) == StrAt(s, 1, t)

StrIncludes(s, t) == \E i \in 1..(Len(s) + 1) : StrAt(s, i, t)

\* s.substring(n)
Substring(s, n) == IF n >= Len(s) THEN <<>> ELSE SubSeq(s, n + 1, Len(s))

Quote == <<"\"">>

Newline == <<"\n">>

\* ' -> '
Arrow == <<" ", "-", ">", " ">>

\* '$ref:'
RefPrefix == <<"$", "r", "e", "f", ":">>

\* '$ref'
RefKey == <<"$", "r", "e", "f">>

\* `"${key}": "${value}"`
KeyValueLiteral(key, value) == Quote \o key \o Quote \o <<":", " ">> \o Quote \o value \o Quote

\* `"${searchKey}"\\s*:\\s*`
SearchPattern(searchKey) == Quote \o searchKey \o Quote \o <<"\\", "s", "*", ":", "\\", "s", "*">>

\* `"${searchKey}"\\s*:`
SimplePattern(searchKey) == Quote \o searchKey \o Quote \o <<"\\", "s", "*", ":">>

\* `"\\$ref"\\s*:\\s*`
RefValuePattern == <<"\"", "\\", "$", "r", "e", "f", "\"", "\\", "s", "*", ":", "\\", "s", "*">>

\* A compiled regular expression is a sequence of items: a literal
\* character, the class \s or the assertion $, each taken once or starred.
\* The pattern characters read are those of the patterns above and of the
\* keys of the paths below: ordinary characters, the escapes \s and \$, the
\* quantifier *, the assertion $ and the openers ( and [, which nothing in
\* these patterns closes.
Literal(c) == [kind |-> "char", c |-> c, star |-> FALSE]

Whitespace == [kind |-> "space", c |-> " ", star |-> FALSE]

EndOfInput == [kind |-> "end", c |-> "", star |-> FALSE]

SyntaxError == [error |-> TRUE, items |-> <<>>]

\* new RegExp(src), read from index i on; a SyntaxError for an unterminated
\* group or class, for a quantifier with nothing to repeat and for a
\* trailing backslash.
RegExpFrom(src, i, items) ==
    IF i > Len(src) THEN [error |-> FALSE, items |-> items]
    ELSE
    CASE src[i] = "\\" ->
            IF i = Len(src) THEN SyntaxError
            ELSE RegExpFrom(src, i + 2,
                            Append(items, IF src[i + 1] = "s" THEN Whitespace
                                          ELSE Literal(src[i + 1])))
      [] src[i] = "*" ->
            IF items = <<>> THEN SyntaxError
            ELSE IF items[Len(items)].star \/ items[Len(items)].kind = "end" THEN SyntaxError
            ELSE RegExpFrom(src, i + 1, [items EXCEPT ![Len(items)].star = TRUE])
      [] src[i] = "$" -> RegExpFrom(src, i + 1, Append(items, EndOfInput))
      [] src[i] \in {"(", "[", ")"} -> SyntaxError
      [] OTHER -> RegExpFrom(src, i + 1, Append(items, Literal(src[i])))

RegExp(src) == RegExpFrom(src, 1, <<>>)

\* The item matches the character c.
Accepts(item, c) ==
    \/ item.kind = "char" /\ item.c = c
    \/ item.kind = "space" /\ c = " "

\* The items from the k-th on match the line from index p on.
MatchAt(items, k, str, p) ==
    IF k > Len(items) THEN TRUE
    ELSE IF items[k].kind = "end" THEN p = Len(str) + 1 /\ MatchAt(items, k + 1, str, p)
    ELSE IF items[k].star
    THEN \/ MatchAt(items, k + 1, str, p)
         \/ p <= Len(str) /\ Accepts(items[k], str[p]) /\ MatchAt(items, k, str, p + 1)
    ELSE p <= Len(str) /\ Accepts(items[k], str[p]) /\ MatchAt(items, k + 1, str, p + 1)

\* regex.test(line)
Test(regex, str) == \E p \in 1..(Len(str) + 1) : MatchAt(regex.items, 1, str, p)

\* The 1-based numbers of the lines that include the string, or that the
\* regular expression matches.
LinesIncluding(lines, searchString) ==
    {i \in 1..Len(lines) : StrIncludes(lines[i], searchString)}

LinesMatching(lines, regex) == {i \in 1..Len(lines) : Test(regex, lines[i])}

\* for (let i = 0; i < lines.length; i++): the first hit, 0 for none.
ForwardScan(hits) == IF hits = {} THEN 0 ELSE CHOOSE i \in hits : \A j \in hits : i <= j

\* Mutant: the scan from the last line replaced by a scan from the first.
BackwardScanForward(hits) == IF hits = {} THEN 0 ELSE CHOOSE i \in hits : \A j \in hits : i <= j

\* for (let i = lines.length - 1; i >= 0; i--): the first hit, 0 for none.
BackwardScan(hits) == IF hits = {} THEN 0 ELSE CHOOSE i \in hits : \A j \in hits : i >= j

\* What a call hands to its caller: a line number, null, or an exception.
ReturnLine(n) == [status |-> "returned", isNull |-> FALSE, n |-> n]

ReturnNull == [status |-> "returned", isNull |-> TRUE, n |-> 0]

Raise == [status |-> "threw", isNull |-> TRUE, n |-> 0]

\* The key a plain step is searched by: the last dotted segment, the text
\* before the first bracket, or the step itself.
SearchKey(part) ==
    IF StrIncludes(part, <<".">>)
    THEN LET propertyParts == StrSplit(part, <<".">>) IN propertyParts[Len(propertyParts)]
    ELSE IF StrIncludes(part, <<"[">>)
    THEN StrSplit(part, <<"[">>)[1]
    ELSE part

\* pathParts[pathParts.length - 1].substring(5)
TargetRef(pathParts) == Substring(pathParts[Len(pathParts)], 5)

\* The branch of a path whose first step starts with '$ref:'.
RefBranch(lines, pathParts) ==
    LET searchString == KeyValueLiteral(RefKey, TargetRef(pathParts))
        hits == LinesIncluding(lines, searchString)
        back == BackwardScan(hits)
        forth == ForwardScan(hits)
    IN IF back # 0 THEN ReturnLine(back)
       ELSE IF forth # 0 THEN ReturnLine(forth)
       ELSE ReturnNull

\* The branch of the other paths.
KeyBranch(lines, pathParts) ==
    LET firstPart == pathParts[1]
        isRef == StrStartsWith(firstPart, RefPrefix)
        searchKey == IF isRef THEN RefKey ELSE SearchKey(firstPart)
        searchValue == IF isRef THEN Substring(firstPart, 5) ELSE <<>>
        special ==
            IF searchKey = RefKey /\ searchValue = <<>>
            THEN LET n == ForwardScan(LinesMatching(lines, RegExp(RefValuePattern)))
                 IN IF n # 0 THEN ReturnLine(n) ELSE ReturnNull
            ELSE ReturnNull
    IN IF searchValue # <<>>
       THEN LET n == ForwardScan(LinesIncluding(lines, KeyValueLiteral(searchKey, searchValue)))
            IN IF n # 0 THEN ReturnLine(n) ELSE special
       ELSE LET regex == RegExp(SearchPattern(searchKey))
                simpleRegex == RegExp(SimplePattern(searchKey))
            IN IF regex.error THEN Raise
               ELSE LET n == ForwardScan(LinesMatching(lines, regex))
                    IN IF n # 0 THEN ReturnLine(n)
                       ELSE IF simpleRegex.error THEN Raise
                       ELSE LET m == ForwardScan(LinesMatching(lines, simpleRegex))
                            IN IF m # 0 THEN ReturnLine(m) ELSE special

\* Mutant: no catch clause, the exception leaves the function.
CatchNothing(r) == r

\* catch (error) { ...; return null }
CatchNull(r) == IF r.status = "threw" THEN ReturnNull ELSE r

findLineNumberForPath(text, pth) ==
    LET lines == StrSplit(text, Newline)
        pathParts == StrSplit(pth, Arrow)
    IN CatchNull(IF Len(pathParts) = 0 THEN ReturnNull
                 ELSE IF StrStartsWith(pathParts[1], RefPrefix)
                 THEN RefBranch(lines, pathParts)
                 ELSE KeyBranch(lines, pathParts))

ReturnLines(ns) == [status |-> "returned", ns |-> ns]

RaiseAll == [status |-> "threw", ns |-> <<>>]

\* The key of a step of findAllLineNumbersForPath.
SearchKeyOfPart(part) == IF StrStartsWith(part, RefPrefix) THEN RefKey ELSE SearchKey(part)

\* The hits in ascending order: what the loop over the lines pushes.
Ascending(hits) ==
    IF hits = {} THEN <<>>
    ELSE LET n == ForwardScan(hits) IN <<n>> \o Ascending(hits \ {n})

\* for (const part of pathParts), from the k-th part on.
CollectLines(lines, pathParts, k, lineNumbers) ==
    IF k > Len(pathParts) THEN ReturnLines(lineNumbers)
    ELSE LET regex == RegExp(SearchPattern(SearchKeyOfPart(pathParts[k])))
         IN IF regex.error THEN RaiseAll
            ELSE CollectLines(lines, pathParts, k + 1,
                              lineNumbers \o Ascending(LinesMatching(lines, regex)))

\* catch (error) { ...; return [] }
CatchEmpty(r) == IF r.status = "threw" THEN ReturnLines(<<>>) ELSE r

findAllLineNumbersForPath(text, pth) ==
    LET lines == StrSplit(text, Newline)
        pathParts == StrSplit(pth, Arrow)
    IN CatchEmpty(IF Len(pathParts) = 0 THEN ReturnLines(<<>>)
                  ELSE CollectLines(lines, pathParts, 1, <<>>))

----------------------------------------------------------------------------
(* Source texts and paths *)

\* The most lines of a source text.
MaxLines == 3

PointerA == <<"#", "/", "$", "d", "e", "f", "s", "/", "A">>

PointerB == <<"#", "/", "$", "d", "e", "f", "s", "/", "B">>

\* "$ref": "#/$defs/A"
RefLine(ptr) == KeyValueLiteral(RefKey, ptr)

\* The lines a text is made of: two $ref lines, the keys x, xx (a space
\* before its colon) and $defs, and a quoted x that is no key.
LineSet ==
    {RefLine(PointerA), RefLine(PointerB),
     <<"\"", "x", "\"", ":", " ", "{">>,
     <<"\"", "x", "x", "\"", " ", ":", " ", "1">>,
     <<"\"", "$", "d", "e", "f", "s", "\"", ":", " ", "{">>,
     <<"\"", "x", "\"">>}

JoinLines(ls, i) ==
    IF i > Len(ls) THEN <<>>
    ELSE IF i = Len(ls) THEN ls[i]
    ELSE ls[i] \o Newline \o JoinLines(ls, i + 1)

Texts == {JoinLines(ls, 1) : ls \in SeqsUpTo(LineSet, MaxLines) \ {<<>>}}

RefStepA == RefPrefix \o PointerA

RefStepB == RefPrefix \o PointerB

\* properties.x
PropertyX == <<"p", "r", "o", "p", "e", "r", "t", "i", "e", "s", ".", "x">>

\* The steps of a path: $ref steps, and plain steps whose keys are x (after
\* a dot, before a bracket), xx (the step itself, and after two dots), $ref,
\* $defs, x* and the unterminated group x(.
PathSteps ==
    {RefStepA, RefStepB, PropertyX,
     <<"x", "[", "0", "]">>,
     <<"x", "x">>,
     <<"n", "o", "t", ".", "p", "r", "o", "p", "e", "r", "t", "i", "e", "s", ".", "x", "x">>,
     <<"n", "o", "t", ".", "$", "r", "e", "f">>,
     <<"n", "o", "t", ".", "$", "d", "e", "f", "s">>,
     <<"p", "r", "o", "p", "e", "r", "t", "i", "e", "s", ".", "x", "*">>,
     <<"p", "r", "o", "p", "e", "r", "t", "i", "e", "s", ".", "x", "(">>}

\* Paths of one step, and of two steps whose second is a $ref step or
\* properties.x.
Paths ==
    PathSteps \cup {a \o Arrow \o b : a \in PathSteps, b \in {RefStepA, RefStepB, PropertyX}}

----------------------------------------------------------------------------
(* The state machine *)

Pending ==
    [status |-> "pending", hasRecursion |-> FALSE, pathIsNull |-> TRUE, recursionPath |-> <<>>]

Result(r) ==
    [status |-> r.status, hasRecursion |-> r.hasRecursion, pathIsNull |-> r.pathIsNull,
     recursionPath |-> r.recursionPath]

NotRun == [status |-> "pending", error |-> "none", trail |-> <<>>, log |-> <<>>]

\* What the caller of findCircularRefs observes: a return or a thrown error.
Outcome(r) ==
    [status |-> IF r.error = "none" THEN "returned" ELSE "threw",
     error |-> r.error, trail |-> r.trail, log |-> r.log]

\* Mutant: the call marks the root it has seen.
DocumentAfterMarked(doc) == [doc EXCEPT ![<<>>].val = <<"seen">>]

\* The document after a call.  Neither function assigns to a property of the
\* schema or of a value reached from it: the objects they write (the Set
\* visited, the Maps refs and definitionsRefs, the path arrays) are created
\* by the call or passed beside the document.
DocumentAfter(doc) == doc

\* Mutant: one Set shared by all calls.
SharedSet == visited

\* visited: Set<any> = new Set()
NewSet == {}

\* resolveRefs before its call.
NotResolved == [status |-> "pending", value |-> Undefined]

\* The locator before its call.
NotLocated == [status |-> "pending", isNull |-> TRUE, n |-> 0]

NotLocatedAll == [status |-> "pending", ns |-> <<>>]

(* The App component (src/src/App.tsx): the editor text, its validation,    *)
(* the generated form, and the uploaded files with their selection.         *)
(* A nullable state value is <<>> (null) or <<v>>.  A text of the editor or *)
(* of a file is one of the texts below, and JSON.parse is computed on them. *)
(* A file name is a sequence of tokens whose last one is its extension.     *)

None == <<>>

Some(v) == <<v>>

EmptyText == ""

BlankText == " "

\* A text JSON.parse rejects.
BrokenText == "{"

\* Parseable JSON that is not a JSON Schema.
InvalidText == "{\"type\": 5}"

\* JSON.stringify(simpleUserSchema, null, 2)
SimpleText == "simpleUserSchema"

\* JSON.stringify(recursiveSchema, null, 2)
RecursiveText == "recursiveSchema"

EditorTexts ==
    {EmptyText, BlankText, BrokenText, InvalidText, SimpleText, RecursiveText}

\* schemaInput.trim()
Trim(text) == IF text \in {EmptyText, BlankText} THEN EmptyText ELSE text

\* simpleUserSchema (schemaExamples.ts), reduced to its type and two of its
\* string properties.
SimpleUserSchemaDoc ==
    Obj(<<TypeIs("object"),
          <<"properties", Obj(<<<<"name", StringSchema>>, <<"email", StringSchema>>>>)>>>>)

InvalidSchemaDoc == Obj(<<<<"type", [p \in {<<>>} |-> Node("number", <<"5">>, <<>>)]>>>>)

\* JSON.parse: the parsed document, or a SyntaxError.
JSONParse(text) ==
    CASE text = InvalidText -> [ok |-> TRUE, doc |-> InvalidSchemaDoc]
      [] text = SimpleText -> [ok |-> TRUE, doc |-> SimpleUserSchemaDoc]
      [] text = RecursiveText -> [ok |-> TRUE, doc |-> RecursiveSchemaDoc]
      [] OTHER -> [ok |-> FALSE, doc |-> Null]

\* The examples of loadExampleSchema by name; the default one, `simple`, is
\* modelled.
schemas == [n \in {<<"simple">>} |-> SimpleText]

\* ajv.validateSchema: the meta-schema requires `type`, when present, to be
\* a type name or an array of them.
AjvValidateSchema(doc) ==
    Get(doc, At(doc, <<>>), "type").kind \in {"undefined", "string", "array"}

\* The validation result with a message; the message is its fixed part.
Validation(isValid, message) == Some([isValid |-> isValid, message |-> message])

\* The form rendered from the schema parsed from a text.
FormOf(text) == [schema |-> text]

\* The state the validation writes, as one record.
Editor ==
    [validationResult |-> validationResult, hasRecursion |-> hasRecursion,
     generatedForm |-> generatedForm, validationTimeout |-> validationTimeout]

SetEditor(e) ==
    /\ validationResult' = e.validationResult
    /\ hasRecursion' = e.hasRecursion
    /\ generatedForm' = e.generatedForm
    /\ validationTimeout' = e.validationTimeout

\* The effect on [schemaInput]: the pending validation is cancelled; a text
\* that is not blank starts a new one, a blank text clears the results.
ScheduleValidation(text, e) ==
    IF Trim(text) # EmptyText
    THEN [e EXCEPT !.validationTimeout = TRUE]
    ELSE [e EXCEPT !.validationTimeout = FALSE, !.validationResult = None,
                   !.generatedForm = None, !.hasRecursion = None]

\* validateSchema on the text of the editor.  Its first statement calls
\* findCircularRefs and logs what it throws; it writes no state.
validateSchema(text, e) ==
    LET parsed == JSONParse(text)
        caught == [e EXCEPT !.validationResult = Validation(FALSE, "Invalid JSON"),
                            !.hasRecursion = None, !.generatedForm = None]
    IN IF ~parsed.ok THEN caught
       ELSE LET r == checkForRecursionWithPath(parsed.doc, At(parsed.doc, <<>>), NewSet, <<>>)
            IN IF r.status = "threw" THEN caught
               ELSE [e EXCEPT !.hasRecursion = Some(r.hasRecursion),
                              !.generatedForm = IF r.hasRecursion THEN None ELSE @,
                              !.validationResult =
                                  IF AjvValidateSchema(parsed.doc)
                                  THEN Validation(TRUE, "JSON Schema is valid!")
                                  ELSE Validation(FALSE, "Invalid JSON Schema")]

\* The validation loadUploadedSchema makes in its timer.
ValidateLoaded(content, e) ==
    LET parsed == JSONParse(content)
        caught == [e EXCEPT !.validationResult = Validation(FALSE, "Invalid JSON"),
                            !.hasRecursion = None, !.generatedForm = None]
    IN IF ~parsed.ok THEN caught
       ELSE LET r == checkForRecursionWithPath(parsed.doc, At(parsed.doc, <<>>), NewSet, <<>>)
            IN IF r.status = "threw" THEN caught
               ELSE [e EXCEPT !.hasRecursion = Some(r.hasRecursion),
                              !.validationResult =
                                  IF AjvValidateSchema(parsed.doc)
                                  THEN Validation(TRUE, "JSON Schema is valid!")
                                  ELSE Validation(FALSE, "Invalid JSON Schema"),
                              !.generatedForm = IF r.hasRecursion THEN None ELSE @]

generateForm(text, e) ==
    LET parsed == JSONParse(text)
    IN IF ~parsed.ok THEN [e EXCEPT !.validationResult = Validation(FALSE, "Error generating form")]
       ELSE IF ~AjvValidateSchema(parsed.doc)
            THEN [e EXCEPT !.validationResult =
                               Validation(FALSE, "Cannot generate form: Invalid JSON Schema")]
            ELSE [e EXCEPT !.generatedForm = Some(FormOf(text))]

\* The effect on [validationResult, hasRecursion].
AutoGenerate(text, e) ==
    IF e.validationResult # None /\ e.validationResult[1].isValid /\ e.hasRecursion = Some(FALSE)
    THEN generateForm(text, e)
    ELSE IF e.hasRecursion = Some(TRUE)
         THEN [e EXCEPT !.generatedForm = None]
         ELSE e

\* The timer loadUploadedSchema sets.
loadUploadedSchema(content, name) ==
    Some([uploaded |-> TRUE, content |-> content, name |-> name])

\* The timer loadExampleSchema sets; no timer for a name that is no example.
loadExampleSchema(schemaName) ==
    IF schemaName \in DOMAIN schemas
    THEN Some([uploaded |-> FALSE, content |-> schemas[schemaName], name |-> schemaName])
    ELSE None

\* At most MaxTimers load timers are pending at a time.
MaxTimers == 1

\* A handler that loads a schema sets isSchemaLoading and a timer.
SetTimeout(load) ==
    /\ load # None => Len(loadTimers) < MaxTimers
    /\ loadTimers' = IF load = None THEN loadTimers ELSE Append(loadTimers, load[1])
    /\ isSchemaLoading' = IF load = None THEN isSchemaLoading ELSE TRUE

\* A file the user drops.
File(name, type, content) == [name |-> name, type |-> type, content |-> content]

\* The drops that are modelled: a valid schema; a text file with a schema
\* that is not valid, named .json but without a type; a file that does not
\* parse with a recursive schema.
Drops ==
    {<<File(<<"valid", ".json">>, "application/json", SimpleText)>>,
     <<File(<<"notes", ".txt">>, "text/plain", SimpleText),
       File(<<"invalid", ".json">>, "", InvalidText)>>,
     <<File(<<"broken", ".json">>, "application/json", BrokenText),
       File(<<"recursive", ".json">>, "application/json", RecursiveText)>>}

\* At most MaxUploads files are accepted in a run.
MaxUploads == 2

EndsWith(name, suffix) == name # <<>> /\ name[Len(name)] = suffix

\* The entry handleFiles pushes for a file whose content parses.  id stands
\* for the identity of the entry.
FileEntry(id, file) ==
    LET doc == JSONParse(file.content).doc
    IN [id |-> id, name |-> file.name, content |-> file.content,
        isValid |-> AjvValidateSchema(doc),
        hasCircularRefs |-> findCircularRefs(doc).error # "none"]

\* The loop of handleFiles from file i on: a file that is not JSON by type
\* or name, or whose content does not parse, is reported and skipped.
NewSchemas(files, i, newSchemas, id) ==
    IF i > Len(files) THEN newSchemas
    ELSE LET file == files[i]
         IN IF (file.type = "application/json" \/ EndsWith(file.name, ".json"))
               /\ JSONParse(file.content).ok
            THEN NewSchemas(files, i + 1, Append(newSchemas, FileEntry(id + 1, file)), id + 1)
            ELSE NewSchemas(files, i + 1, newSchemas, id)

\* newSchemas.splice(index, 1): the array without the element at a 0-based
\* index.
Splice(newSchemas, index) ==
    [k \in 1..(Len(newSchemas) - 1) |->
        IF k <= index THEN newSchemas[k] ELSE newSchemas[k + 1]]

\* Mutant: the indices above the removed one are kept as they are.
AdjustedSelectedFilesUnshifted(selected, index) == selected \ {index}

\* The selection after the removal of the file at index.
AdjustedSelectedFiles(selected, index) ==
    {IF selectedIndex > index THEN selectedIndex - 1 ELSE selectedIndex :
        selectedIndex \in selected \ {index}}

\* Array.from(selectedFiles).sort((a, b) => b - a)
SortedIndices(selected) ==
    IF selected = {} THEN <<>>
    ELSE LET greatest == CHOOSE i \in selected : \A j \in selected : i >= j
         IN <<greatest>> \o SortedIndices(selected \ {greatest})

\* The loop of deleteSelectedFiles from sortedIndices[k] on.  A splice past
\* the end yields undefined, and reading its name throws.
DeleteEach(newSchemas, sortedIndices, k, needToLoadNewSchema, current) ==
    IF k > Len(sortedIndices)
    THEN [thrown |-> FALSE, newSchemas |-> newSchemas,
          needToLoadNewSchema |-> needToLoadNewSchema]
    ELSE LET index == sortedIndices[k]
         IN IF index >= Len(newSchemas)
            THEN [thrown |-> TRUE, newSchemas |-> newSchemas,
                  needToLoadNewSchema |-> needToLoadNewSchema]
            ELSE DeleteEach(Splice(newSchemas, index), sortedIndices, k + 1,
                            needToLoadNewSchema \/ Some(newSchemas[index + 1].name) = current,
                            current)

\* The schema loaded in place of a removed current one.
LoadAnother(newSchemas) ==
    IF Len(newSchemas) > 0
    THEN loadUploadedSchema(newSchemas[1].content, newSchemas[1].name)
    ELSE loadExampleSchema(<<"simple">>)

\* The component after its mount without a schema parameter in the URL: no
\* text, the example `simple` being loaded.  The selectedSchema '' is <<>>.
AppStart ==
    /\ schemaInput = EmptyText
    /\ validationResult = None
    /\ hasRecursion = None
    /\ generatedForm = None
    /\ isSchemaLoading = TRUE
    /\ selectedSchema = None
    /\ uploadedSchemas = <<>>
    /\ selectedFiles = {}
    /\ validationTimeout = FALSE
    /\ loadTimers = <<loadExampleSchema(<<"simple">>)[1]>>
    /\ reading = None
    /\ uploads = 0
    /\ lastCall = None

Init ==
    /\ schema \in Documents
    /\ detect = Pending
    /\ detect2 = Pending
    /\ visited = {}
    /\ circ = NotRun
    /\ circ1 = NotRun
    /\ jsonString = <<>>
    /\ pathText = <<>>
    /\ lineNumber = NotLocated
    /\ allLineNumbers = NotLocatedAll
    /\ inputAt = <<>>
    /\ resolved = NotResolved
    /\ AppStart

Detect ==
    /\ detect.status = "pending"
    /\ LET r == checkForRecursionWithPath(schema, At(schema, <<>>), NewSet, <<>>)
       IN /\ detect' = Result(r)
          /\ visited' = r.visited
    /\ schema' = DocumentAfter(schema)
    /\ UNCHANGED <<detect2, circ, circ1>>
    /\ UNCHANGED locatorVars
    /\ UNCHANGED resolverVars
    /\ UNCHANGED appVars

\* A second call on the same document.
DetectAgain ==
    /\ detect.status # "pending"
    /\ detect2.status = "pending"
    /\ LET r == checkForRecursionWithPath(schema, At(schema, <<>>), NewSet, <<>>)
       IN /\ detect2' = Result(r)
          /\ visited' = r.visited
    /\ schema' = DocumentAfter(schema)
    /\ UNCHANGED <<detect, circ, circ1>>
    /\ UNCHANGED locatorVars
    /\ UNCHANGED resolverVars
    /\ UNCHANGED appVars

FindCircularRefs ==
    /\ circ.status = "pending"
    /\ circ' = Outcome(findCircularRefs(schema))
    /\ schema' = DocumentAfter(schema)
    /\ UNCHANGED <<detect, detect2, visited, circ1>>
    /\ UNCHANGED locatorVars
    /\ UNCHANGED resolverVars
    /\ UNCHANGED appVars

FindCircularRefs1 ==
    /\ circ1.status = "pending"
    /\ circ1' = Outcome(findCircularRefs1(schema))
    /\ schema' = DocumentAfter(schema)
    /\ UNCHANGED <<detect, detect2, visited, circ>>
    /\ UNCHANGED locatorVars
    /\ UNCHANGED resolverVars
    /\ UNCHANGED appVars

Next == Detect \/ DetectAgain \/ FindCircularRefs \/ FindCircularRefs1

Spec == Init /\ [][Next]_vars

\* The line locator applied to a source text and a path.
LocatorInit ==
    /\ schema = SelfRefDoc
    /\ detect = Pending
    /\ detect2 = Pending
    /\ visited = {}
    /\ circ = NotRun
    /\ circ1 = NotRun
    /\ jsonString \in Texts
    /\ pathText \in Paths
    /\ lineNumber = NotLocated
    /\ allLineNumbers = NotLocatedAll
    /\ inputAt = <<>>
    /\ resolved = NotResolved
    /\ AppStart

FindLineNumberForPath ==
    /\ lineNumber.status = "pending"
    /\ lineNumber' = findLineNumberForPath(jsonString, pathText)
    /\ UNCHANGED <<jsonString, pathText, allLineNumbers>>
    /\ UNCHANGED detectorVars
    /\ UNCHANGED resolverVars
    /\ UNCHANGED appVars

FindAllLineNumbersForPath ==
    /\ allLineNumbers.status = "pending"
    /\ allLineNumbers' = findAllLineNumbersForPath(jsonString, pathText)
    /\ UNCHANGED <<jsonString, pathText, lineNumber>>
    /\ UNCHANGED detectorVars
    /\ UNCHANGED resolverVars
    /\ UNCHANGED appVars

LocatorNext == FindLineNumberForPath \/ FindAllLineNumbersForPath

LocatorSpec == LocatorInit /\ [][LocatorNext]_vars

\* resolveRefs applied to a value of the document, the document being the
\* root schema.
ResolveRefs ==
    /\ resolved.status = "pending"
    /\ \E pos \in DOMAIN schema :
          LET r == resolveRefs(schema, At(schema, pos))
          IN /\ inputAt' = pos
             /\ resolved' = [status |-> IF r.thrown THEN "threw" ELSE "returned",
                             value |-> r.value]
    /\ UNCHANGED detectorVars
    /\ UNCHANGED locatorVars
    /\ UNCHANGED appVars

ResolverNext == ResolveRefs

ResolverSpec == Init /\ [][ResolverNext]_vars

----------------------------------------------------------------------------
(* The App component as a state machine: one action per event handler and   *)
(* per timer callback.  An action that writes a state value a useEffect     *)
(* depends on includes that effect.                                         *)

otherVars == <<detectorVars, locatorVars, resolverVars>>

AppInit ==
    /\ schema = SelfRefDoc
    /\ detect = Pending
    /\ detect2 = Pending
    /\ visited = {}
    /\ circ = NotRun
    /\ circ1 = NotRun
    /\ jsonString = <<>>
    /\ pathText = <<>>
    /\ lineNumber = NotLocated
    /\ allLineNumbers = NotLocatedAll
    /\ inputAt = <<>>
    /\ resolved = NotResolved
    /\ AppStart

\* The editor's onChange, shown when no schema is loading.
EditText(value) ==
    /\ ~isSchemaLoading
    /\ value # schemaInput
    /\ schemaInput' = value
    /\ SetEditor(ScheduleValidation(value, Editor))
    /\ UNCHANGED <<isSchemaLoading, selectedSchema, uploadedSchemas, selectedFiles,
                   loadTimers, reading, uploads>>
    /\ lastCall' = None
    /\ UNCHANGED otherVars

\* The validation timer fires: validateSchema, then the effect on its
\* results.
ValidateSchemaTimeout ==
    /\ validationTimeout
    /\ LET validated == validateSchema(schemaInput, [Editor EXCEPT !.validationTimeout = FALSE])
       IN SetEditor(AutoGenerate(schemaInput, validated))
    /\ UNCHANGED <<schemaInput, isSchemaLoading, selectedSchema, uploadedSchemas,
                   selectedFiles, loadTimers, reading, uploads>>
    /\ lastCall' = None
    /\ UNCHANGED otherVars

\* The example selector.
LoadExampleSchema(schemaName) ==
    /\ SetTimeout(loadExampleSchema(schemaName))
    /\ UNCHANGED <<schemaInput, validationResult, hasRecursion, generatedForm,
                   selectedSchema, uploadedSchemas, selectedFiles, validationTimeout,
                   reading, uploads>>
    /\ lastCall' = None
    /\ UNCHANGED otherVars

\* The timer of loadExampleSchema fires.
LoadExampleTimeout ==
    /\ loadTimers # <<>>
    /\ ~Head(loadTimers).uploaded
    /\ LET load == Head(loadTimers)
       IN /\ schemaInput' = load.content
          /\ selectedSchema' = Some(load.name)
          /\ SetEditor(IF load.content # schemaInput
                       THEN ScheduleValidation(load.content, Editor) ELSE Editor)
    /\ isSchemaLoading' = FALSE
    /\ loadTimers' = Tail(loadTimers)
    /\ UNCHANGED <<uploadedSchemas, selectedFiles, reading, uploads>>
    /\ lastCall' = None
    /\ UNCHANGED otherVars

\* The timer of loadUploadedSchema fires.
LoadUploadedTimeout ==
    /\ loadTimers # <<>>
    /\ Head(loadTimers).uploaded
    /\ LET load == Head(loadTimers)
           loaded == ValidateLoaded(load.content, Editor)
           scheduled == IF load.content # schemaInput
                        THEN ScheduleValidation(load.content, loaded) ELSE loaded
       IN /\ schemaInput' = load.content
          /\ selectedSchema' = Some(load.name)
          /\ SetEditor(AutoGenerate(load.content, scheduled))
    /\ isSchemaLoading' = FALSE
    /\ loadTimers' = Tail(loadTimers)
    /\ UNCHANGED <<uploadedSchemas, selectedFiles, reading, uploads>>
    /\ lastCall' = None
    /\ UNCHANGED otherVars

\* handleFiles up to its first await: the files are being read, and the
\* handler holds the uploadedSchemas of the render it was called in.
HandleFiles(files) ==
    /\ reading = None
    /\ uploads + Len(files) <= MaxUploads
    /\ reading' = Some([files |-> files, wasEmpty |-> Len(uploadedSchemas) = 0])
    /\ UNCHANGED <<schemaInput, validationResult, hasRecursion, generatedForm,
                   isSchemaLoading, selectedSchema, uploadedSchemas, selectedFiles,
                   validationTimeout, loadTimers, uploads>>
    /\ lastCall' = None
    /\ UNCHANGED otherVars

\* handleFiles after the files are read.
HandleFilesRead ==
    /\ reading # None
    /\ LET newSchemas == NewSchemas(reading[1].files, 1, <<>>, uploads)
       IN /\ uploadedSchemas' = uploadedSchemas \o newSchemas
          /\ uploads' = uploads + Len(newSchemas)
          /\ SetTimeout(IF Len(newSchemas) > 0 /\ reading[1].wasEmpty
                        THEN loadUploadedSchema(newSchemas[1].content, newSchemas[1].name)
                        ELSE None)
    /\ reading' = None
    /\ UNCHANGED <<schemaInput, validationResult, hasRecursion, generatedForm,
                   selectedSchema, selectedFiles, validationTimeout>>
    /\ lastCall' = None
    /\ UNCHANGED otherVars

\* toggleFileSelection, from the checkbox of a listed file.
ToggleFileSelection(index) ==
    /\ index < Len(uploadedSchemas)
    /\ selectedFiles' = IF index \in selectedFiles
                        THEN selectedFiles \ {index} ELSE selectedFiles \cup {index}
    /\ UNCHANGED <<schemaInput, validationResult, hasRecursion, generatedForm,
                   isSchemaLoading, selectedSchema, uploadedSchemas, validationTimeout,
                   loadTimers, reading, uploads>>
    /\ lastCall' = None
    /\ UNCHANGED otherVars

\* A click on a listed file: it toggles the file when files are selected
\* and loads it otherwise.
ClickFile(index) ==
    /\ index < Len(uploadedSchemas)
    /\ IF Cardinality(selectedFiles) > 0
       THEN /\ selectedFiles' = IF index \in selectedFiles
                                THEN selectedFiles \ {index} ELSE selectedFiles \cup {index}
            /\ UNCHANGED <<isSchemaLoading, loadTimers>>
       ELSE /\ SetTimeout(loadUploadedSchema(uploadedSchemas[index + 1].content,
                                             uploadedSchemas[index + 1].name))
            /\ UNCHANGED selectedFiles
    /\ UNCHANGED <<schemaInput, validationResult, hasRecursion, generatedForm,
                   selectedSchema, uploadedSchemas, validationTimeout, reading, uploads>>
    /\ lastCall' = None
    /\ UNCHANGED otherVars

\* selectAllFiles; its button is shown when files are listed.
SelectAllFiles ==
    /\ Len(uploadedSchemas) > 0
    /\ selectedFiles' = IF Cardinality(selectedFiles) = Len(uploadedSchemas)
                        THEN {} ELSE {k - 1 : k \in DOMAIN uploadedSchemas}
    /\ UNCHANGED <<schemaInput, validationResult, hasRecursion, generatedForm,
                   isSchemaLoading, selectedSchema, uploadedSchemas, validationTimeout,
                   loadTimers, reading, uploads>>
    /\ lastCall' = None
    /\ UNCHANGED otherVars

\* removeUploadedSchema, from the delete button of a listed file.
RemoveUploadedSchema(index) ==
    /\ index < Len(uploadedSchemas)
    /\ LET newSchemas == Splice(uploadedSchemas, index)
           removedSchema == uploadedSchemas[index + 1]
       IN /\ uploadedSchemas' = newSchemas
          /\ selectedFiles' = AdjustedSelectedFiles(selectedFiles, index)
          /\ SetTimeout(IF selectedSchema = Some(removedSchema.name)
                        THEN LoadAnother(newSchemas) ELSE None)
    /\ UNCHANGED <<schemaInput, validationResult, hasRecursion, generatedForm,
                   selectedSchema, validationTimeout, reading, uploads>>
    /\ lastCall' = Some(<<"removeUploadedSchema", index>>)
    /\ UNCHANGED otherVars

\* deleteSelectedFiles; it returns at once when nothing is selected.
DeleteSelectedFiles ==
    /\ Cardinality(selectedFiles) # 0
    /\ LET d == DeleteEach(uploadedSchemas, SortedIndices(selectedFiles), 1, FALSE, selectedSchema)
       IN /\ ~d.thrown
          /\ uploadedSchemas' = d.newSchemas
          /\ selectedFiles' = {}
          /\ SetTimeout(IF d.needToLoadNewSchema THEN LoadAnother(d.newSchemas) ELSE None)
    /\ UNCHANGED <<schemaInput, validationResult, hasRecursion, generatedForm,
                   selectedSchema, validationTimeout, reading, uploads>>
    /\ lastCall' = Some(<<"deleteSelectedFiles">>)
    /\ UNCHANGED otherVars

AppNext ==
    \/ \E value \in EditorTexts : EditText(value)
    \/ ValidateSchemaTimeout
    \/ \E schemaName \in DOMAIN schemas : LoadExampleSchema(schemaName)
    \/ LoadExampleTimeout
    \/ LoadUploadedTimeout
    \/ \E files \in Drops : HandleFiles(files)
    \/ HandleFilesRead
    \/ \E index \in 0..(MaxUploads - 1) : ToggleFileSelection(index)
    \/ \E index \in 0..(MaxUploads - 1) : ClickFile(index)
    \/ SelectAllFiles
    \/ \E index \in 0..(MaxUploads - 1) : RemoveUploadedSchema(index)
    \/ DeleteSelectedFiles

AppSpec == AppInit /\ [][AppNext]_vars

----------------------------------------------------------------------------
(* Properties *)

\* The steps of a diagnostic path: the string split on ' -> '.
SplitArrowFrom(s, i, cur) ==
    IF i > Len(s) THEN <<cur>>
    ELSE IF s[i] = " -> " THEN <<cur>> \o SplitArrowFrom(s, i + 1, <<>>)
    ELSE SplitArrowFrom(s, i + 1, Append(cur, s[i]))

Steps(s) == SplitArrowFrom(s, 1, <<>>)

Detected(d) == d.status = "returned" /\ d.hasRecursion

\* C1 as stated: on {"type":"object","properties":{"next":{"$ref":"#"}}}
\* checkForRecursionWithPath returns hasRecursion = true and a path whose first
\* step is "properties.next" and whose second step is "$ref:#".
C1_PathHasRefStep ==
    (schema = SelfRefDoc /\ detect.status # "pending") =>
        /\ Detected(detect)
        /\ Len(Steps(detect.recursionPath)) >= 2
        /\ Steps(detect.recursionPath)[1] = <<"properties", ".", "next">>
        /\ Steps(detect.recursionPath)[2] = <<"$ref:", "#">>

\* C1 amended: on that document checkForRecursionWithPath returns
\* hasRecursion = true and the path "properties.next", a single step: the
\* visited test answers before the "$ref:#" step is appended.
C1_PathIsPropertyStep ==
    (schema = SelfRefDoc /\ detect.status # "pending") =>
        /\ Detected(detect)
        /\ ~detect.pathIsNull
        /\ Steps(detect.recursionPath) = << <<"properties", ".", "next">> >>

C1_Witness == schema = SelfRefDoc /\ Detected(detect)

\* The documents of C2: an object-typed root with a property referencing
\* #/$defs/B, B with a property referencing A, A with a property referencing B.
MutualDocs ==
    {MutualRecursionDoc,
     GraphDoc(<<Pointer("B")>>, ObjectWith(<<Pointer("B")>>), ObjectWith(<<Pointer("A")>>))}

\* C2: on mutual recursion A -> B -> A through two named definitions
\* findCircularRefs raises the circular-reference error and
\* checkForRecursionWithPath returns hasRecursion = true.
C2_MutualRecursion ==
    schema \in MutualDocs =>
        /\ circ.status # "pending" => (circ.status = "threw" /\ circ.error = "CircularReference")
        /\ detect.status # "pending" => Detected(detect)

C2_Witness ==
    /\ schema = MutualRecursionDoc
    /\ circ.error = "CircularReference"
    /\ Detected(detect)

HasNoRef(doc) == \A p \in DOMAIN doc : "$ref" \notin Range(doc[p].keys)

\* C3 as stated: on every document without any $ref
\* checkForRecursionWithPath returns hasRecursion = false.
C3_NoRefNoRecursion ==
    (HasNoRef(schema) /\ detect.status # "pending") =>
        (detect.status = "returned" /\ ~detect.hasRecursion)

\* The documents of C4: two sibling properties of the root reference the same
\* definition, and no reference leads back (B may reference A, A nothing).
DiamondDocs ==
    {GraphDoc(<<t, t>>, ObjectWith(<<>>), b) :
        t \in {Pointer("A"), Pointer("B")},
        b \in {ObjectWith(<<>>), ObjectWith(<<Pointer("A")>>), Ref(Pointer("A"))}}

\* C4: on an acyclic document in which two sibling properties of the root
\* reference the same definition checkForRecursionWithPath returns
\* hasRecursion = true.
C4_Diamond ==
    (schema \in DiamondDocs /\ detect.status # "pending") => Detected(detect)

C4_Witness == schema \in DiamondDocs /\ Detected(detect)

\* The position a pointer "#/s1/.../sn" names, and whether the document
\* holds a value there.
NameTokens(ptr) == SelectSeq(ptr, LAMBDA t : t \notin {"#", "/"})

TargetExists(doc, ptr) == NameTokens(ptr) \in DOMAIN doc

\* The positions that carry a $ref string.
RefSites(doc) ==
    {p \in DOMAIN doc : /\ doc[p].kind = "object"
                        /\ "$ref" \in Range(doc[p].keys)
                        /\ doc[p \o <<"$ref">>].kind = "string"
                        /\ doc[p \o <<"$ref">>].val # <<>>}

PointerAt(doc, p) == doc[p \o <<"$ref">>].val

DanglingSites(doc) == {p \in RefSites(doc) : ~TargetExists(doc, PointerAt(doc, p))}

\* The members of the composition keys of the object-typed schema at q.
Members(doc, q) ==
    IF IsObjectTyped(doc, At(doc, q))
    THEN {c \in DOMAIN doc : /\ Len(c) = Len(q) + 2
                             /\ SubSeq(c, 1, Len(q)) = q
                             /\ c[Len(q) + 1] \in Range(keysToCheck)}
    ELSE {}

\* The positions a traversal that never stopped would visit: the root, the
\* target of every reference visited, and the members of every schema visited.
ReachStep(doc, R) ==
    R \cup {NameTokens(PointerAt(doc, p)) : p \in (R \cap RefSites(doc)) \ DanglingSites(doc)}
      \cup UNION {Members(doc, q) : q \in R}

Closure(doc, R) == IF ReachStep(doc, R) = R THEN R ELSE Closure(doc, ReachStep(doc, R))

DetectReach(doc) == Closure(doc, {<<>>})

\* The pointers of the index of the root, as collectRefs builds it.
RootIndex(doc) == {r.ref.v : r \in Range(collectRefs(doc, At(doc, <<>>)).refs)}

NoNull(doc) == \A p \in DOMAIN doc : doc[p].kind # "null"

HasDefinitions(doc) == DEFINITION_KEY_WORD \in Range(doc[<<>>].keys)

DefinitionPointers(doc) ==
    IF HasDefinitions(doc) /\ IsContainer(At(doc, <<DEFINITION_KEY_WORD>>))
    THEN {<<"#", "/", DEFINITION_KEY_WORD, "/", n>> : n \in Range(doc[<<DEFINITION_KEY_WORD>>].keys)}
    ELSE {}

\* Every $ref of the document names no definition and is not the root pointer.
AllRefsNameNothing(doc) ==
    \A p \in RefSites(doc) : PointerAt(doc, p) \notin DefinitionPointers(doc) \cup {<<"#">>}

LongChainDocs ==
    {ChainDoc(n, tail) : n \in {m \in 1..MaxChain : m >= 11}, tail \in {"end", "open"}}
    \ {ChainDoc(11, "end")}

\* C6: a chain of 11 or more hops through definitions without a repeated
\* pointer makes findCircularRefs raise the max-depth error, not the
\* circular-reference error.
C6_LongChainExceedsDepth ==
    (circ.status # "pending" /\ schema \in LongChainDocs)
        => (circ.status = "threw" /\ circ.error = "MaxDepthExceeded")

C6_Witness ==
    /\ schema = ChainDoc(12, "end")
    /\ circ.status = "threw"
    /\ circ.error = "MaxDepthExceeded"

\* C7 as stated: on a document without a $defs key (and without null
\* members) findCircularRefs returns without raising, whatever $ref values
\* the document holds.
C7_NoDefinitionsNoOp ==
    (~HasDefinitions(schema) /\ NoNull(schema) /\ circ.status # "pending")
        => circ.status = "returned"

\* The same statement of the definition of lines 84-103, which tests for the
\* definitions block before it scans.
NoDefinitionsNoOp1 ==
    (~HasDefinitions(schema) /\ NoNull(schema) /\ circ1.status # "pending")
        => circ1.status = "returned"

\* The reference graph the walk runs on: the pointers of the root index,
\* and for each definition the pointers of its index.
DefinitionsIndex(doc) ==
    CollectDefinitions(doc, Get(doc, At(doc, <<>>), DEFINITION_KEY_WORD), 1, <<>>).defs

Edges(doc, id) ==
    IF DefsHas(DefinitionsIndex(doc), id)
    THEN {r.ref : r \in Range(DefsGet(DefinitionsIndex(doc), id))}
    ELSE {}

\* t is a walk of the graph from a pointer of the root index that visits
\* distinct pointers until its last step, which returns to one of them.
IsRevisitingWalk(doc, t) ==
    /\ Len(t) >= 2
    /\ t[1] \in {r.ref : r \in Range(collectRefs(doc, At(doc, <<>>)).refs)}
    /\ \A i \in 1..(Len(t) - 1) : t[i + 1] \in Edges(doc, t[i])
    /\ \A i, j \in 1..(Len(t) - 1) : i # j => t[i] # t[j]
    /\ \E i \in 1..(Len(t) - 1) : t[i] = t[Len(t)]

Count(log, id) == Cardinality({i \in DOMAIN log : log[i] = id})

\* Diamonds among definitions without a cycle: A references B and C, and one
\* of B and C references the other.
DiamondOnC ==
    {BranchDoc(a, <<Pointer("C")>>, <<>>) :
        a \in {<<Pointer("B"), Pointer("C")>>, <<Pointer("C"), Pointer("B")>>}}

DiamondOnB ==
    {BranchDoc(a, <<>>, <<Pointer("B")>>) :
        a \in {<<Pointer("B"), Pointer("C")>>, <<Pointer("C"), Pointer("B")>>}}

\* C8: findCircularRefs raises the circular-reference error only when the
\* pointer about to be visited is already on the path of the current walk;
\* a definition reachable through two sibling branches is walked twice and
\* raises no error.
C8_CycleOnlyOnCurrentPath ==
    /\ circ.error = "CircularReference" => IsRevisitingWalk(schema, circ.trail)
    /\ (circ.status # "pending" /\ schema \in DiamondOnC)
          => (circ.status = "returned" /\ Count(circ.log, StrId(Pointer("C"))) = 2)
    /\ (circ.status # "pending" /\ schema \in DiamondOnB)
          => (circ.status = "returned" /\ Count(circ.log, StrId(Pointer("B"))) = 2)

C8_Witness ==
    /\ schema \in DiamondOnC
    /\ circ.status = "returned"
    /\ Count(circ.log, StrId(Pointer("C"))) = 2

\* The definition of lines 66-103 shares one Set among the branches of a
\* walk: there the diamond raises the circular-reference error.
SharedSetFlagsDiamond1 ==
    (circ1.status # "pending" /\ schema \in DiamondOnC \cup DiamondOnB)
        => (circ1.status = "threw" /\ circ1.error = "CircularReference")

\* The positions an indexing scan started at R visits: the members of the
\* composition keys of every object-typed schema visited.
ScanClosure(doc, R) ==
    LET N == R \cup UNION {Members(doc, q) : q \in R}
    IN IF N = R THEN R ELSE ScanClosure(doc, N)

\* The schemas findCircularRefs scans: the root and every named definition.
ScanRoots(doc) ==
    {<<>>} \cup
    (IF HasDefinitions(doc) /\ IsContainer(At(doc, <<DEFINITION_KEY_WORD>>))
     THEN {<<DEFINITION_KEY_WORD, n>> : n \in Range(doc[<<DEFINITION_KEY_WORD>>].keys)}
     ELSE {})

RootRefScanned(doc) ==
    \E p \in ScanClosure(doc, ScanRoots(doc)) \cap RefSites(doc) : PointerAt(doc, p) = <<"#">>

\* C9: if the scan of the root or of any named definition reaches a node
\* whose $ref is "#", findCircularRefs raises the root-self-reference error,
\* before any walk starts and instead of any cycle or depth error.
C9_RootSelfReferenceFirst ==
    (circ.status # "pending" /\ RootRefScanned(schema))
        => /\ circ.status = "threw"
           /\ circ.error = "RootSelfReference"
           /\ circ.log = <<>>

\* A cycle A -> A reached from the root, and "#" in B, which nothing references.
C9_Witness ==
    /\ schema = GraphDoc(<<Pointer("A")>>, ObjectWith(<<Pointer("A")>>), ObjectWith(<<<<"#">>>>))
    /\ circ.error = "RootSelfReference"

----------------------------------------------------------------------------
----------------------------------------------------------------------------
(* The line locator *)

\* The lines of the source text and the steps of the path.
TextLines == StrSplit(jsonString, Newline)

PathParts == StrSplit(pathText, Arrow)

Spaces(n) == [i \in 1..n |-> " "]

\* The string holds "<key>", optional spaces and a colon.
HasKey(str, key) ==
    \E n \in 0..Len(str) : StrIncludes(str, Quote \o key \o Quote \o Spaces(n) \o <<":">>)

\* The numbers of the lines that hold the key as a quoted key.
KeyLines(key) == {i \in 1..Len(TextLines) : HasKey(TextLines[i], key)}

\* The key derived from a step: $ref for a $ref step.
DerivedKey(step) == IF StrStartsWith(step, RefPrefix) THEN RefKey ELSE SearchKey(step)

Least(hits) == CHOOSE i \in hits : \A j \in hits : i <= j

Greatest(hits) == CHOOSE i \in hits : \A j \in hits : i >= j

\* C12 as stated: when exactly one line holds "$ref": "#/$defs/A" and the
\* path is the step $ref:#/$defs/A, findLineNumberForPath returns the number
\* of that line; when the key derived from the first step of the path is on
\* no line a quoted key followed by a colon, it returns null.
C12_LocateRefOrNull ==
    lineNumber.status # "pending" =>
        /\ (pathText = RefStepA
              /\ Cardinality(LinesIncluding(TextLines, RefLine(PointerA))) = 1)
             => lineNumber = ReturnLine(Least(LinesIncluding(TextLines, RefLine(PointerA))))
        /\ KeyLines(DerivedKey(PathParts[1])) = {} => lineNumber = ReturnNull

\* The first half of C12 alone holds.
LocateSingleRef ==
    (lineNumber.status # "pending" /\ pathText = RefStepA
       /\ Cardinality(LinesIncluding(TextLines, RefLine(PointerA))) = 1)
      => lineNumber = ReturnLine(Least(LinesIncluding(TextLines, RefLine(PointerA))))

\* The lines that hold "$ref": "<pointer>" for the pointer of the first step.
FirstStepHits == LinesIncluding(TextLines, KeyValueLiteral(RefKey, Substring(PathParts[1], 5)))

\* C13 as stated: when the first step of the path is $ref:<pointer>,
\* findLineNumberForPath searches for "$ref": "<pointer>" with the pointer of
\* that first step, also when the further steps are $ref steps with other
\* pointers: it returns a line that holds this text when there is one, and
\* null when there is none.
C13_SearchesFirstStepPointer ==
    (lineNumber.status # "pending"
       /\ \A k \in 1..Len(PathParts) : StrStartsWith(PathParts[k], RefPrefix)) =>
        IF FirstStepHits = {} THEN lineNumber = ReturnNull
        ELSE ~lineNumber.isNull /\ lineNumber.n \in FirstStepHits

\* The lines that hold the text the $ref branch searches for.
SearchedHits ==
    LinesIncluding(TextLines,
                   KeyValueLiteral(RefKey, Substring(PathParts[Len(PathParts)], 5)))

\* C14: when the first step is a $ref step, findLineNumberForPath returns the
\* greatest number of a line that holds the searched text, and null when no
\* line holds it: the forward scan after the backward scan adds no result.
C14_GreatestMatchingLine ==
    (lineNumber.status # "pending" /\ StrStartsWith(PathParts[1], RefPrefix)) =>
        lineNumber = IF SearchedHits = {} THEN ReturnNull
                     ELSE ReturnLine(Greatest(SearchedHits))

\* Two lines hold the searched text and the later one is returned.
C14_Witness ==
    /\ lineNumber.status = "returned"
    /\ StrStartsWith(PathParts[1], RefPrefix)
    /\ Cardinality(SearchedHits) >= 2
    /\ lineNumber = ReturnLine(Greatest(SearchedHits))
    /\ Least(SearchedHits) < Greatest(SearchedHits)

\* C15 as stated: when the first step is a plain step, findLineNumberForPath
\* derives one key from it (the last dotted segment, the text before the
\* bracket, or the step itself) and returns the least number of a line that
\* holds "<key>", optional whitespace and a colon, or null when no line does;
\* the further steps have no influence.
C15_FirstLineOfKey ==
    (lineNumber.status # "pending" /\ ~StrStartsWith(PathParts[1], RefPrefix)) =>
        lineNumber = IF KeyLines(SearchKey(PathParts[1])) = {} THEN ReturnNull
                     ELSE ReturnLine(Least(KeyLines(SearchKey(PathParts[1]))))

\* The keys made of ordinary characters only, for which the regular
\* expression built from the key reads the key literally.
IsPlainKey(key) == \A i \in 1..Len(key) : key[i] \notin {"$", "*", "(", "[", ")", "\\"}

\* C15 holds of the keys made of ordinary characters.
FirstLineOfPlainKey ==
    (lineNumber.status # "pending" /\ ~StrStartsWith(PathParts[1], RefPrefix)
       /\ IsPlainKey(SearchKey(PathParts[1]))) =>
        lineNumber = IF KeyLines(SearchKey(PathParts[1])) = {} THEN ReturnNull
                     ELSE ReturnLine(Least(KeyLines(SearchKey(PathParts[1]))))

\* The ascending line numbers of the keys of the steps from the k-th on.
KeyLinesOfSteps(parts, k) ==
    IF k > Len(parts) THEN <<>>
    ELSE Ascending(KeyLines(DerivedKey(parts[k]))) \o KeyLinesOfSteps(parts, k + 1)

\* C16 as stated: findAllLineNumbersForPath returns, for the steps in path
\* order, the ascending numbers of all lines that hold the key derived from
\* the step as a quoted key followed by a colon, concatenated without
\* deduplication, and the empty sequence when nothing matches.
C16_AllLinesOfAllSteps ==
    allLineNumbers.status # "pending" =>
        allLineNumbers = ReturnLines(KeyLinesOfSteps(PathParts, 1))

\* C16 holds of the paths whose keys are made of ordinary characters: a
\* line matched by two steps is listed twice.
AllLinesOfPlainSteps ==
    (allLineNumbers.status # "pending"
       /\ \A k \in 1..Len(PathParts) : IsPlainKey(DerivedKey(PathParts[k]))) =>
        allLineNumbers = ReturnLines(KeyLinesOfSteps(PathParts, 1))

\* C17: for every source text and every path, keys with regular-expression
\* metacharacters included, findLineNumberForPath returns a line number or
\* null and findAllLineNumbersForPath returns a sequence; neither raises,
\* and a key that is no regular expression gives null and the empty sequence.
C17_LocatorNeverRaises ==
    /\ lineNumber.status \in {"pending", "returned"}
    /\ allLineNumbers.status \in {"pending", "returned"}
    /\ (lineNumber.status = "returned" /\ ~StrStartsWith(PathParts[1], RefPrefix)
          /\ RegExp(SearchPattern(SearchKey(PathParts[1]))).error)
         => lineNumber = ReturnNull
    /\ (allLineNumbers.status = "returned"
          /\ \E k \in 1..Len(PathParts) :
                RegExp(SearchPattern(DerivedKey(PathParts[k]))).error)
         => allLineNumbers = ReturnLines(<<>>)

\* Both functions have returned on a path whose key is the unterminated
\* group x(, over a text that holds the key x.
C17_Witness ==
    /\ lineNumber = ReturnNull
    /\ allLineNumbers = ReturnLines(<<>>)
    /\ RegExp(SearchPattern(SearchKey(PathParts[1]))).error
    /\ KeyLines(<<"x">>) # {}

----------------------------------------------------------------------------
(* Traversal order, pruning and reference resolution *)

\* The composition keys in the order the traversal is to take them.
FixedOrder == <<"allOf", "anyOf", "oneOf", "not", "properties">>

\* The members of the root under the given key, in the order of the
\* traversal: the positions of the elements of an array by ascending index,
\* of the values of a mapping in insertion order.
MembersUnder(doc, key) ==
    IF key \in Range(doc[<<>>].keys)
    THEN [i \in DOMAIN doc[<<key>>].keys |-> <<key, doc[<<key>>].keys[i]>>]
    ELSE <<>>

\* All members of the root in depth-first order.
Traversal(doc) ==
    MembersUnder(doc, FixedOrder[1]) \o MembersUnder(doc, FixedOrder[2])
    \o MembersUnder(doc, FixedOrder[3]) \o MembersUnder(doc, FixedOrder[4])
    \o MembersUnder(doc, FixedOrder[5])

\* The member is a reference to the root.
IsRootReference(doc, pos) == "$ref" \in Range(doc[pos].keys)

\* The indices, in the traversal, of the members that lead back to the root.
Detections(doc) ==
    {i \in DOMAIN Traversal(doc) : IsRootReference(doc, Traversal(doc)[i])}

\* The step of the path for a member: key[index] or key.name.
StepOf(doc, pos) ==
    IF doc[<<pos[1]>>].kind = "array" THEN <<pos[1], "[", pos[2], "]">>
    ELSE <<pos[1], ".", pos[2]>>

ObjectId(pos) == [k |-> "object", at |-> pos, v |-> <<>>]

\* C18: checkForRecursionWithPath explores the keys in the order allOf, anyOf,
\* oneOf, not, properties whatever their order in the document, the elements
\* of an array by ascending index and the entries of a mapping in insertion
\* order, and returns the first detection of this depth-first order without
\* visiting a further node: its path is the step of the first member that
\* refers to the root, and the visited nodes are the root and the members
\* before that one.
C18_FirstDetectionInFixedOrder ==
    (schema \in OrderDocs /\ detect.status # "pending") =>
        IF Detections(schema) = {}
        THEN /\ detect.status = "returned" /\ ~detect.hasRecursion
             /\ visited = {ObjectId(<<>>)}
                            \cup {ObjectId(Traversal(schema)[i]) : i \in DOMAIN Traversal(schema)}
        ELSE LET first == Least(Detections(schema))
             IN /\ Detected(detect)
                /\ detect.recursionPath = StepOf(schema, Traversal(schema)[first])
                /\ visited = {ObjectId(<<>>)}
                               \cup {ObjectId(Traversal(schema)[i]) : i \in 1..(first - 1)}

\* properties precedes allOf in the document, a property and an element of
\* allOf refer to the root, and the path returned starts with the allOf step.
C18_Witness ==
    /\ schema \in OrderDocs
    /\ schema[<<>>].keys = <<"type", "properties", "allOf">>
    /\ IsRootReference(schema, <<"properties", "b">>)
    /\ ~IsRootReference(schema, <<"allOf", "0">>)
    /\ IsRootReference(schema, <<"allOf", "1">>)
    /\ Detected(detect)
    /\ detect.recursionPath = <<"allOf", "[", "1", "]">>
    /\ visited = {ObjectId(<<>>), ObjectId(<<"allOf", "0">>)}

C19_WitnessUntyped ==
    /\ schema \in UntypedDocs
    /\ Detections(schema) # {}
    /\ detect.status = "returned"
    /\ visited = {ObjectId(<<>>)}

\* The input of resolveRefs and the pointer it carries.
InputIsRef ==
    /\ schema[inputAt].kind \in {"object", "array"}
    /\ "$ref" \in Range(schema[inputAt].keys)
    /\ schema[inputAt \o <<"$ref">>].kind = "string"

InputPointer == schema[inputAt \o <<"$ref">>].val

\* The pointer is "#" followed by segments, each a "/" and a name.
IsSegmentPointer(ptr) ==
    /\ Len(ptr) >= 3
    /\ Len(ptr) % 2 = 1
    /\ ptr[1] = "#"
    /\ \A i \in 2..Len(ptr) : (i % 2 = 0) <=> (ptr[i] = "/")

\* The segments s1..sn of the pointer "#/s1/.../sn".
Segments(ptr) == [i \in 1..((Len(ptr) - 1) \div 2) |-> ptr[2 * i + 1]]

\* C20: resolveRefs returns the root schema itself for the $ref "#", the
\* node reached from the root by the successive key lookups s1..sn for the
\* $ref "#/s1/.../sn", and the input node itself when it carries no $ref.
C20_ResolveRefs ==
    resolved.status # "pending" =>
        /\ (InputIsRef /\ InputPointer = <<"#">>)
              => resolved = [status |-> "returned", value |-> At(schema, <<>>)]
        /\ (InputIsRef /\ IsSegmentPointer(InputPointer)
              /\ Segments(InputPointer) \in DOMAIN schema)
              => resolved = [status |-> "returned",
                             value |-> At(schema, Segments(InputPointer))]
        /\ (schema[inputAt].kind # "null" /\ "$ref" \notin Range(schema[inputAt].keys))
              => resolved = [status |-> "returned", value |-> At(schema, inputAt)]

\* A reference to a definition two lookups below the root has been resolved.
C20_Witness ==
    /\ InputIsRef
    /\ IsSegmentPointer(InputPointer)
    /\ Len(Segments(InputPointer)) = 2
    /\ Segments(InputPointer) \in DOMAIN schema
    /\ resolved = [status |-> "returned", value |-> At(schema, Segments(InputPointer))]
    /\ inputAt # Segments(InputPointer)

----------------------------------------------------------------------------
(* The order of the cycle check and the depth check *)

\* Chains whose walk revisits a pointer while its path holds at most 11
\* pointers: D1 .. Dn with n <= 11, the last referring to D1 or to itself.
RevisitingChains ==
    {ChainDoc(n, tail) : n \in {m \in 1..MaxChain : m <= 11}, tail \in {"loop", "self"}}

\* Chains of 12 or more distinct pointers: the 12th is a definition, lies on
\* a cycle, or names no definition.
TwelvePointerChains ==
    {ChainDoc(n, tail) : n \in {m \in 1..MaxChain : m >= 12},
                         tail \in {"end", "open", "loop", "self"}}
    \cup {ChainDoc(11, "open")}

\* Chains of at most 11 distinct pointers without a cycle.
ShortChains ==
    {ChainDoc(n, "end") : n \in {m \in 1..MaxChain : m <= 11}}
    \cup {ChainDoc(n, "open") : n \in {m \in 1..MaxChain : m <= 10}}

\* The pointers of the path at the moment of the error, and the pointer the
\* walk was about to visit.
TrailPath == SubSeq(circ.trail, 1, Len(circ.trail) - 1)

TrailPointer == circ.trail[Len(circ.trail)]

\* C21: in the definitions walk the cycle check precedes the depth check and
\* the depth check fires when the path holds more than 10 pointers: a
\* revisit with a path of at most 11 pointers raises CircularReference, a
\* 12th distinct pointer raises MaxDepthExceeded whether it names a
\* definition, lies on a cycle or names nothing, and a chain of at most 11
\* distinct pointers completes silently.
C21_CycleCheckBeforeDepthCheck ==
    circ.status # "pending" =>
        /\ circ.error = "CircularReference" =>
              /\ Len(TrailPath) <= 11
              /\ TrailPointer \in Range(TrailPath)
        /\ circ.error = "MaxDepthExceeded" =>
              /\ Len(TrailPath) = 11
              /\ Cardinality(Range(circ.trail)) = 12
        /\ schema \in RevisitingChains => circ.error = "CircularReference"
        /\ schema \in TwelvePointerChains => circ.error = "MaxDepthExceeded"
        /\ schema \in ShortChains => circ.status = "returned"

\* The walk has come back to D1 with the 11 pointers D1 .. D11 on its path.
C21_Witness ==
    /\ schema = ChainDoc(11, "loop")
    /\ circ.error = "CircularReference"
    /\ Len(TrailPath) = 11
    /\ TrailPointer = TrailPath[1]

----------------------------------------------------------------------------
(* The graph of the definitions walk *)

\* The pointers of the root index.
RootPointers(doc) == {r.ref : r \in Range(collectRefs(doc, At(doc, <<>>)).refs)}

\* The pointers a definition of the index refers to.
EdgesIn(defs, id) ==
    IF \E i \in DOMAIN defs : defs[i].key = id
    THEN {r.ref : r \in Range(defs[CHOOSE i \in DOMAIN defs : defs[i].key = id].refs)}
    ELSE {}

\* The pointers reached from R through zero or more hops of the
\* per-definition reference indexes.
PointerClosure(defs, R) ==
    LET N == R \cup UNION {EdgesIn(defs, id) : id \in R}
    IN IF N = R THEN R ELSE PointerClosure(defs, N)

\* The pointer lies on a cycle of the graph.
OnCycleIn(defs, id) == id \in PointerClosure(defs, EdgesIn(defs, id))

OnCycle(doc, id) == OnCycleIn(DefinitionsIndex(doc), id)

\* Some pointer of the root index reaches a pointer that lies on a cycle.
CycleReachable(doc) ==
    LET defs == DefinitionsIndex(doc)
    IN \E id \in PointerClosure(defs, RootPointers(doc)) : OnCycleIn(defs, id)

\* C22 as stated: on a document with a $defs block in which a pointer of the
\* root index reaches a pointer on a cycle, findCircularRefs raises
\* CircularReference or MaxDepthExceeded.
C22_CycleRaisesCycleOrDepthError ==
    (circ.status # "pending" /\ HasDefinitions(schema) /\ NoNull(schema)
       /\ CycleReachable(schema))
        => /\ circ.status = "threw"
           /\ circ.error \in {"CircularReference", "MaxDepthExceeded"}

\* C22 amended: on a document with a $defs block and without null members in
\* which a pointer of the root index reaches a pointer on a cycle,
\* findCircularRefs terminates by raising an error and never completes
\* silently: RootSelfReference when the scan of the root or of a definition
\* meets a $ref "#", CircularReference or MaxDepthExceeded otherwise.
C22_CycleAlwaysRaises ==
    (circ.status # "pending" /\ HasDefinitions(schema) /\ NoNull(schema)
       /\ CycleReachable(schema))
        => /\ circ.status = "threw"
           /\ IF RootRefScanned(schema)
              THEN circ.error = "RootSelfReference"
              ELSE circ.error \in {"CircularReference", "MaxDepthExceeded"}

\* The root index holds a pointer that is not on a cycle and reaches one
\* that is, and the walk has raised the circular-reference error.
C22_Witness ==
    /\ HasDefinitions(schema)
    /\ CycleReachable(schema)
    /\ \E id \in RootPointers(schema) : ~OnCycle(schema, id)
    /\ ~RootRefScanned(schema)
    /\ circ.error = "CircularReference"

----------------------------------------------------------------------------
(* Termination of checkForRecursionWithPath *)

\* The identities a call can add to the Visited Set: the objects and arrays
\* of the document, the values of its primitives, and the characters of its
\* strings.
NodeIdentities(doc) ==
    {IF doc[p].kind \in {"object", "array"}
     THEN ObjectId(p)
     ELSE [k |-> doc[p].kind, at |-> <<>>, v |-> doc[p].val] : p \in DOMAIN doc}
    \cup UNION {{StrId(<<doc[p].val[i]>>) : i \in DOMAIN doc[p].val} :
                    p \in {q \in DOMAIN doc : doc[q].kind = "string"}}

\* The document has a cycle of references that the traversal follows.
HasReferenceCycle(doc) ==
    \E p \in DetectReach(doc) \cap RefSites(doc) :
        /\ TargetExists(doc, PointerAt(doc, p))
        /\ \E n \in 0..Len(p) : SubSeq(p, 1, n) = NameTokens(PointerAt(doc, p))

\* C23: checkForRecursionWithPath terminates on every document without
\* dangling references, cyclic ones included: every call that descends has
\* added an identity of the document that the Visited Set did not hold, so
\* the set holds identities of the document only and the call returns.
C23_DetectorTerminates ==
    (detect.status # "pending" /\ DetectReach(schema) \cap DanglingSites(schema) = {})
        => /\ visited \subseteq NodeIdentities(schema)
           /\ Cardinality(visited) <= Cardinality(NodeIdentities(schema))
           /\ NoNull(schema) => detect.status = "returned"

\* The call has returned on a document in which a reference leads back to a
\* schema that holds it.
C23_Witness ==
    /\ HasReferenceCycle(schema)
    /\ HasDefinitions(schema)
    /\ DetectReach(schema) \cap DanglingSites(schema) = {}
    /\ detect.status = "returned"
    /\ visited # {}
    /\ visited \subseteq NodeIdentities(schema)

----------------------------------------------------------------------------
(* What the two detectors report *)

\* An acyclic document with a single $ref, to the definition A, which holds
\* no reference and which nothing else refers to.
SingleRefDoc == GraphDoc(<<Pointer("A")>>, ObjectWith(<<>>), ObjectWith(<<>>))

\* C24 as stated: on an acyclic document holding a single $ref to a
\* non-recursive definition that nothing else references,
\* checkForRecursionWithPath returns hasRecursion = false.
C24_SingleRefNoRecursion ==
    (schema = SingleRefDoc /\ detect.status # "pending")
        => (detect.status = "returned" /\ ~detect.hasRecursion)

\* C25: on every document without dangling references on which
\* findCircularRefs raises CircularReference or MaxDepthExceeded,
\* checkForRecursionWithPath returns hasRecursion = true.
C25_DetectorsAgreeOnCycles ==
    (circ.status # "pending" /\ detect.status # "pending"
       /\ circ.error \in {"CircularReference", "MaxDepthExceeded"}
       /\ DanglingSites(schema) = {})
        => Detected(detect)

\* Both detectors have run on a document whose definitions A and B refer to
\* each other.
C25_Witness ==
    /\ DanglingSites(schema) = {}
    /\ CycleReachable(schema)
    /\ \E id \in RootPointers(schema) : id \notin EdgesIn(DefinitionsIndex(schema), id)
    /\ circ.error = "CircularReference"
    /\ Detected(detect)

\* A state that is reached: the depth error and a reported recursion on a
\* chain without dangling references.
DepthErrorAndRecursion ==
    /\ DanglingSites(schema) = {}
    /\ circ.error = "MaxDepthExceeded"
    /\ Detected(detect)

\* C26 as stated: a $ref carried directly by the `not` schema of an
\* object-typed node is resolved and followed by checkForRecursionWithPath,
\* which reports hasRecursion = true, and is recorded by the indexing scan of
\* findCircularRefs: the scan raises the root-self-reference error on "#", and
\* the walk finds the cycle of a definition whose `not` refers to itself.
C26_NotIsOneSchema ==
    /\ (schema \in {NotRootDoc, NotDefinitionDoc} /\ detect.status # "pending")
          => Detected(detect)
    /\ (schema = NotRootDoc /\ circ.status # "pending")
          => circ.error = "RootSelfReference"
    /\ (schema = NotDefinitionDoc /\ circ.status # "pending")
          => circ.error = "CircularReference"

\* Every step of the path is a $ref step.
AllRefSteps == \A k \in 1..Len(PathParts) : StrStartsWith(PathParts[k], RefPrefix)

\* The ascending numbers of the lines that hold the key $ref, once per step
\* from the k-th on.
RefKeyLinesPerStep(k) ==
    IF k > Len(PathParts) THEN <<>>
    ELSE Ascending(KeyLines(RefKey)) \o RefKeyLinesPerStep(k + 1)

\* C27 as stated: for a $ref:<pointer> step findAllLineNumbersForPath
\* searches for the key $ref and contributes the number of every line that
\* holds a "$ref" key followed by a colon.
C27_RefStepFindsRefKeys ==
    (allLineNumbers.status # "pending" /\ AllRefSteps)
        => allLineNumbers = ReturnLines(RefKeyLinesPerStep(1))

\* C28 as stated: the sequence returned by findAllLineNumbersForPath is
\* index-aligned with the steps of the path: it has one entry per step, and
\* entry i is the number of a line that holds the key of step i.
C28_OneLinePerStep ==
    allLineNumbers.status # "pending" =>
        /\ Len(allLineNumbers.ns) = Len(PathParts)
        /\ \A i \in 1..Len(PathParts) :
              allLineNumbers.ns[i] \in KeyLines(DerivedKey(PathParts[i]))

----------------------------------------------------------------------------
(* The generated form and the validation of the editor text *)

\* The validation of the text now in the editor has completed: no
\* validation is pending and a result is held.  A change of the text starts
\* a validation or clears the result.
ValidationCompleted == ~validationTimeout /\ validationResult # None

\* The text of the editor is a schema the validator accepts.
TextAccepted ==
    JSONParse(schemaInput).ok /\ AjvValidateSchema(JSONParse(schemaInput).doc)

\* C29 as stated: after a validation run has completed for the current
\* editor text, a generated form is displayed only if that text is a schema
\* the validator accepts and hasRecursion is false; a form generated for an
\* earlier text is removed when the text is changed to JSON that fails
\* schema validation, that has recursion, or that does not parse.
C29_FormOnlyForAcceptedText ==
    (ValidationCompleted /\ generatedForm # None)
        => (TextAccepted /\ hasRecursion = Some(FALSE))

\* The part of C29 the code keeps: after a completed validation no form is
\* displayed for a text that does not parse or that has recursion.
FormRemovedOnRecursionOrSyntaxError ==
    (ValidationCompleted /\ (~JSONParse(schemaInput).ok \/ hasRecursion = Some(TRUE)))
        => generatedForm = None

----------------------------------------------------------------------------
(* The uploaded files and their selection *)

\* Every selected index is an index of uploadedSchemas.
SelectedValid == \A i \in selectedFiles : i \in 0..(Len(uploadedSchemas) - 1)

\* The selected files.
SelectedIds == {uploadedSchemas[i + 1].id : i \in selectedFiles}

\* The files of a list other than the given ones, in their order.
Remaining(files, ids) == SelectSeq(files, LAMBDA f : f.id \notin ids)

\* C30: in every step every index in selectedFiles stays a valid index of
\* uploadedSchemas; a step of removeUploadedSchema(i) removes the file at i
\* and keeps selected exactly the remaining files that were selected, the
\* indices above i shifted down by one; a step of deleteSelectedFiles removes
\* exactly the selected files and leaves the selection empty.
C30_SelectionFollowsFiles ==
    [][/\ SelectedValid'
       /\ \A i \in 0..(Len(uploadedSchemas) - 1) :
             lastCall' = Some(<<"removeUploadedSchema", i>>) =>
                /\ uploadedSchemas' = Remaining(uploadedSchemas, {uploadedSchemas[i + 1].id})
                /\ SelectedIds' = SelectedIds \ {uploadedSchemas[i + 1].id}
                /\ selectedFiles' = {j \in selectedFiles : j < i}
                                       \cup {j - 1 : j \in {k \in selectedFiles : k > i}}
       /\ lastCall' = Some(<<"deleteSelectedFiles">>) =>
                /\ uploadedSchemas' = Remaining(uploadedSchemas, SelectedIds)
                /\ selectedFiles' = {}]_vars

\* removeUploadedSchema(0) has just removed the first of two files while
\* the second was selected: the second file is now at index 0 and selected.
C30_Witness ==
    /\ lastCall = Some(<<"removeUploadedSchema", 0>>)
    /\ Len(uploadedSchemas) = 1
    /\ uploadedSchemas[1].id = 2
    /\ selectedFiles = {0}

\* deleteSelectedFiles has just removed two selected files.
DeletedTwoFiles ==
    /\ lastCall = Some(<<"deleteSelectedFiles">>)
    /\ uploads = 2
    /\ uploadedSchemas = <<>>

====
